---- MODULE Spec2Model ----
(***************************************************************************)
(* Button event detection of MicroPython_ESP32_lib: the digital debounce   *)
(* filters, the RealTimeButton event detectors, the Button.py strategies   *)
(* and the EventHandler / ListenerHandler dispatchers.                     *)
(*                                                                         *)
(* Each part of the library is a group of variables with its own           *)
(* specification; a specification leaves the other groups at their         *)
(* initial values.                                                         *)
(*   SpecCF    countFiltering, one call, any sequence of pin reads         *)
(*   SpecRT    one poll of a RealTimeButton event detector (press,         *)
(*             release, long press, multi click) against a timed pin       *)
(*             waveform, from the construction of the detector             *)
(*             SpecRTBoth runs the poll as monitor_sync and then again as  *)
(*             monitor_async                                               *)
(*   SpecChatter  isChangedStably called again and again on a pin whose    *)
(*             level changes with a burst of bounce samples shorter than   *)
(*             the threshold after each change                             *)
(*   SpecObs   the pressed / released / state queries of a RealTimeButton, *)
(*             a CountFilteringImmediateDebounceButton and an              *)
(*             InterruptDrivenStateDebounceButton, for every polarity the  *)
(*             constructors accept                                         *)
(*   SpecBtn   a ListenerHandler that polls OnPressedListener or           *)
(*             OnReleasedListener over an ImmediateDebounceButton, against *)
(*             a timed press and release                                   *)
(*   SpecDisp  the poll loops of three dispatcher bindings, their start    *)
(*             and stop, and the handler calls; SpecDispFair adds the      *)
(*             scheduling of the loops, SpecDispWatch the count of the     *)
(*             handler calls of one binding                                *)
(*   SpecIrq   an InterruptDrivenStateDebounceButton from activate() on:   *)
(*             the edge interrupts of a timed waveform (one press, noise   *)
(*             while the button is held, maybe a release), the listener    *)
(*             that polls the interrupt flag, the agent, the debounce      *)
(*             timer and two press listeners that poll isToPressed;        *)
(*             SpecIrqSlow is the                                          *)
(*             same for a debounce interval longer than the period of the  *)
(*             listener of the interrupt flag                              *)
(*   SpecTimer the task of the debounce timer of that button and its       *)
(*             callback, statement by statement, for pin samples that      *)
(*             match the released signal, the pressed signal or neither    *)
(*   SpecFilters  one call of isChanged or of isChangedStably, any         *)
(*             sequence of pin reads                                       *)
(*   SpecState a StateDebounceButton whose pin is pressed and released     *)
(*             while its methods are called, every method or isToPressed   *)
(*             alone                                                       *)
(*   SpecAsyncTimer  a non-repeating AsyncTimer: its timer tasks on a      *)
(*             clock and any sequence of activate, deactivate and          *)
(*             reactivate calls made by other tasks                        *)
(*   SpecMech  the state-mechanism button: the interrupt handler, the      *)
(*             debounce and long-press callbacks, the multi-click window   *)
(*             timers and the polls of a long-press and a multi-click      *)
(*             detector, on a clock                                        *)
(*   SpecLoops any sequence of start and stop calls on an EventHandler     *)
(*             binding and a ListenerHandler binding: every poll loop the  *)
(*             calls have spawned and every handler invocation in flight   *)
(***************************************************************************)
EXTENDS Integers, Sequences, FiniteSets, TLC

\* ---------------------------------------------------------------- bounds
\* Largest stability threshold of a countFiltering call.
MaxThreshold == 3
\* Most pin reads of one countFiltering call that are explored.
MaxReads == 8

\* RealTimeButton: largest threshold and interval_ms of the button.
RTMaxThreshold == 2
RTMaxInterval == 2
\* Largest timeout_ms of a long-press or multi-click detector.
MaxTimeout == 4
\* Latest time of the first press, longest hold and longest gap between
\* two clicks of the pin waveform, and the most noisy reads while held.
MaxLead == 2
MaxHold == 7
MaxGap == 4
MaxGlitch == 2
\* The clock value at which the exploration of a poll stops.
MaxTime == 30

\* ImmediateDebounceButton under a ListenerHandler: largest interval_ms of
\* the button and period_ms of the handler, latest press, longest hold, and
\* the clock value at which the exploration stops.
BtnMaxInterval == 2
BtnMaxPeriod == 3
BtnMaxLead == 6
BtnMaxHold == 8
BtnMaxTime == 26

\* Dispatcher: the threshold of the button of the EventHandler bindings,
\* and the most stop calls on one binding that the history counts.
DispThreshold == 1
MaxStops == 2

\* Interrupt-driven button: the period of the listener that polls the
\* interrupt flag is the default of ListenerHandler, the constructor of the
\* button passes none.  Times are in ms.  The waveform is one press
\* followed by at most IrqMaxGlitches noise pulses of IrqGlitchWidth ms
\* during which the held button reads released; the clock stops at
\* IrqMaxTime and the history counts at most IrqMaxTrues reports.
ListenerHandler_period_ms == 100
IrqMaxGlitches == 2
IrqGlitchWidth == 5
IrqMaxTime == 450
IrqMaxTrues == 2
\* interval_ms of the button: the default and the 50 ms of the scenario.
IrqIntervals == {32, 50}
\* The time of the press after activate(), and the times from one edge of
\* the press waveform to the next noise pulse: pulses fall before, between
\* and on the samples of the debounce timer.
IrqLeads == {15, 60, 95}
IrqGaps == {10, 60, 120}
\* The time from the last edge of the held button to its release.
IrqReleases == {70}
\* A debounce interval longer than the period of the listener that polls
\* the interrupt flag, and a press after the first poll of that listener.
IrqSlowIntervals == {110}
IrqSlowLeads == {15, 105}
\* period_ms of the two listeners that poll isToPressed.
IrqDetectorPeriods == {20, 100}
IrqDetectors == {1, 2}

\* Repeated isChangedStably: the largest threshold, and the most calls
\* that the history counts.
NcMaxThreshold == 3
NcMaxCount == 2

\* Queries of a button: the largest threshold of the count-filtering
\* button.
ObsMaxThreshold == 3

\* Start and stop in any order: the most poll loops of one binding and
\* the most spawned handler invocations that are followed at a time.
MaxLoops == 2
MaxHandlers == 2

\* isChanged / isChangedStably: largest threshold and most pin reads of
\* one call that are explored.
FiltersMaxThreshold == 3
FiltersMaxReads == 7

\* StateDebounceButton: most presses of the pin, and the number of
\* isToPressed calls that return while the pin is held at one level.
MaxPresses == 3
HoldPolls == 3

\* AsyncTimer: most timer tasks one timer creates, its largest interval_ms
\* and the clock value at which the exploration stops.
MaxTimerTasks == 3
MaxTimerInterval == 2
MaxTimerTime == 5

\* State-mechanism button: largest longPress_timeout_ms, largest
\* multiClick_window_ms, largest min_clicks, the clock value at which the
\* exploration stops and the most true polls of one hold that are counted.
MechMaxTimeout == 2
MechMaxWindow == 3
MechMaxClicks == 3
MechMaxTime == 5
MechMaxTrues == 2

\* The two levels pin.value() returns.
PinLevels == {0, 1}

VARIABLES
  \* countFiltering (one call)
  cf_threshold,   \* parameter threshold
  cf_target,      \* parameter target_signal
  cf_cnt,         \* local cnt
  cf_pc,          \* "loop" while in the while loop, "done" after return
  cf_result,      \* the returned value, once done
  cf_reads,       \* history: number of pin.value() calls so far
  cf_flips,       \* history: reads whose verdict differs from the read before
  cf_prev,        \* history: verdict of the last read ("none" before the first)
  cf_seq,         \* history: the values pin.value() returned, in order
  \* RealTimeButton detector (one detector, one poll)
  rt_kind,        \* "press" | "release" | "long" | "multi"
  rt_regime,      \* "sync" (monitor_sync) | "async" (monitor_async)
  rt_pressed,     \* pressed_signal; released_signal is the other level
  rt_threshold,   \* Button.threshold
  rt_interval,    \* Button.interval_ms
  rt_timeout,     \* timeout_ms of the detector
  rt_times,       \* times of the multi-click detector
  rt_edges,       \* the pin waveform: the times at which the level changes
  rt_glitch,      \* noisy reads (released while held) so far
  rt_now,         \* Time.current_ms()
  rt_pc,          \* position in __init__ / monitor
  rt_fpc,         \* position in the filter being called ("idle": none)
  rt_fstart,      \* start_signal of the filter call
  rt_fend,        \* end_signal / target_signal of the filter call
  rt_fcnt,        \* cnt of countFiltering
  rt_fret,        \* returned value of the filter call ("none": not yet)
  rt_endTime,     \* local endTime
  rt_clicks,      \* local current_clicks
  rt_result,      \* "none" | "true" | "false" | "raised"
  rt_detectAt,    \* history: clock when the first to-pressed was confirmed
  rt_tickStart,   \* history: clock at the start of the current wait-loop tick
  rt_relRun,      \* history: current run of released reads in the hold loop
  rt_maxRelRun,   \* history: longest such run
  rt_doneAt,      \* history: clock when the last click's release was confirmed
  rt_syncVerdict, \* the verdict of monitor_sync, once the same poll is run
                  \* again as monitor_async ("none": not run again)
  \* dispatcher bindings
  d_pin,          \* level of the button of the EventHandler bindings
  d_flag,         \* BooleanFlag.flag of the listener binding
  d_enabled,      \* EventHandler.enabled / ListenerHandler.active
  d_loop,         \* position of the poll loop ("none": not started)
  d_cnt,          \* cnt of countFiltering inside the poll
  d_stops,        \* history: stop calls since the binding was started
  d_raised,       \* history: a handler of the binding has raised
  d_watch,        \* the binding whose handler calls are followed ("none": none)
  d_seen,         \* history of the followed binding: handler calls since the
                  \* last event of its kind, "idle" | "none" | "once" | "twice"
  \* ImmediateDebounceButton polled by a ListenerHandler
  b_kind,         \* "press" (OnPressedListener) | "release" (OnReleasedListener)
  b_interval,     \* BaseButton.interval_ms
  b_period,       \* ListenerHandler.period_ms
  b_edges,        \* the times at which the button is pressed and released
  b_now,          \* the clock, in ms
  b_pc,           \* position in listen(): "test" | "second" | "sleep"
  b_trues,        \* history: polls of the listener that returned True
  \* InterruptDrivenStateDebounceButton
  i_interval,     \* interval_ms
  i_dperiod,      \* period_ms of the listeners that poll isToPressed
  i_edges,        \* the times of the edges on the pin, the first a press
  i_next,         \* index of the next edge
  i_now,          \* the clock, in ms
  i_pin,          \* "released" | "pressed"
  i_phase,        \* "new" | "active" | "deactivated"
  i_armed,        \* pin.irq has a handler
  i_irqFlag,      \* _irq_flag
  i_lhActive,     \* _irq_listenerHandler.active
  i_listenAt,     \* next poll of _irq_listenerHandler.listen (-1: no loop)
  i_agent,        \* _irq_agentHandler task: "idle" | "spawned" | "restarted"
  i_last,         \* _last_state: "BOUNCING" | "RELEASED" | "PRESSED"
  i_current,      \* _current_state
  i_timer,        \* _debounce_timer task: "none" | "sleep" | "hold"
  i_timerAt,      \* its wake-up time (-1: none)
  i_holdKind,     \* the flag its callback holds: "none" | "toReleased" | "toPressed"
  i_toReleased,   \* _toReleased_flag
  i_toPressed,    \* _toPressed_flag
  i_pollAt,       \* next poll of each press listener
  i_trues,        \* history: polls of each press listener that returned True
  i_lastEdge,     \* history: time of the last edge interrupt (-1: none)
  i_quiet,        \* history: the last run of the debounce callback came after
                  \* a whole interval without edge interrupt:
                  \* "none" | "quiet" | "noisy"
  i_stable,       \* history: the state the debounce callback committed
                  \* last ("none": it has committed none)
  i_clearBy,      \* history: for each raised transition flag, the time of
                  \* its raise plus twice the interval (-1: not raised)
  \* isChangedStably, called repeatedly
  nc_start,       \* start_signal; end_signal is the other level
  nc_threshold,   \* threshold
  nc_level,       \* the level the pin has genuinely taken
  nc_burst,       \* bounce samples left after the last genuine change
  nc_settled,     \* the pin has been at its genuine level for a sample
  nc_pc,          \* position in the call: "first" | "wait" | "count"
  nc_cnt,         \* cnt of countFiltering
  nc_trues,       \* history: calls that returned True since the last genuine
                  \* change to the end level
  nc_falses,      \* history: calls that returned False after such a True
  nc_bounced,     \* history: a sample since the last genuine change was not
                  \* the genuine level
  \* the queries of a button
  o_variant,      \* the class of the button
  o_pressed,      \* pressed_signal
  o_released,     \* released_signal
  o_threshold,    \* threshold of the count-filtering button
  o_pin,          \* the level of the pin
  o_cached,       \* _current_state of the interrupt-driven button
  o_isPressed,    \* what isPressed returned on the present pin sample or
                  \* cached state: "none" (not called) | "true" | "false"
  o_isReleased,   \* the same for isReleased
  o_left,         \* reads left in getState of the count-filtering button
  o_sum,          \* its cnt
  o_state,        \* what getState returned last ("none": not called)
  \* poll loops and handler invocations of two bindings
  h_flag,         \* what the polled event or listener answers at present
  h_enabled,      \* EventHandler.enabled / ListenerHandler.active
  h_loop,         \* for each binding, the number of its poll loops at each
                  \* position of the loop
  h_handler,      \* handler invocations of the listener binding that run in
                  \* a thread or task of their own
  h_caught,       \* history: the handler invocations of each binding that
                  \* were in flight at a stop call and have not returned
  h_outlived,     \* history: such an invocation has returned
  \* the debounce timer of the interrupt-driven button and its callback
  t_runtime,      \* the asyncio of the build: "micropython" | "cpython"
  t_phase,        \* "new" | "active" | "deactivated"
  t_active,       \* AsyncTimer.active
  t_task,         \* the timer task: "none" | "start" | "sleep" | "hold" |
                  \* "done" | "failed"
  t_last,         \* _last_state
  t_current,      \* _current_state
  t_toReleased,   \* _toReleased_flag
  t_toPressed,    \* _toPressed_flag
  t_holdKind,     \* the flag the callback holds
  t_sample,       \* history: what the pin sample of the last expiry matched
                  \* ("none": no expiry since the last restart by an edge)
  t_warned,       \* history: that expiry logged the warning
  \* one call of DigitalFilters.isChanged or DigitalFilters.isChangedStably
  f_fn,           \* "isChanged" | "isChangedStably"
  f_start,        \* parameter start_signal
  f_end,          \* parameter end_signal
  f_threshold,    \* parameter threshold
  f_pc,           \* "first" | "for" | "while" | "countFiltering" | "done"
  f_i,            \* iterations of the for loop of isChanged begun so far
  f_cnt,          \* local cnt of countFiltering
  f_result,       \* the returned value, once done
  f_seq,          \* history: the values pin.value() returned, in order
  f_sleeps,       \* history: number of Wait calls so far
  f_left,         \* history: index in f_seq of the read that ended the
                  \* while loop and made the call to countFiltering (0: none)
  \* a StateDebounceButton and the calls of its methods
  s_mode,         \* "any": every method is called | "pressOnly": the button
                  \* is polled through isToPressed alone
  s_pin,          \* level of the pin: "released" | "pressed"
  s_last,         \* _last_state
  s_pc,           \* "idle" | "sleep" (isToPressed / isToReleased in its sleep)
  s_fn,           \* the last isTo* call begun ("none" before the first)
  s_entry,        \* history: _last_state when that call began
  s_entrySample,  \* history: the state that call sampled at entry ("none":
                  \* it took no sample at entry)
  s_sample,       \* history: the state it sampled after its sleep
  s_result,       \* what it returned: "none" | "true" | "false"
  s_presses,      \* history: presses of the pin so far
  s_polls,        \* history: isToPressed calls returned since the pin changed
  s_reported,     \* history: isToPressed calls that returned True
  \* one non-repeating AsyncTimer and the calls of its methods
  a_async,        \* callback_isAsync
  a_interval,     \* interval_ms
  a_now,          \* the clock
  a_active,       \* self.active
  a_ref,          \* self._timer_task: 0 for None, else the number of a task
  a_task,         \* every task created: its position "unborn" | "start" |
                  \* "sleep" | "callback" | "done" | "cancelled"
  a_wake,         \* for every task, the time its sleep ends
  a_made,         \* number of tasks created so far
  a_armedAt,      \* history: time of the last call that created a task
  a_runs,         \* history: callbacks begun since that call
  a_quiet,        \* history: deactivate was the last call
  a_redone,       \* history: the last call that created a task was reactivate
  \* the state-mechanism button, its timers and two of its detectors
  m_timeout,      \* longPress_timeout_ms
  m_window,       \* multiClick_window_ms
  m_min,          \* min_clicks of the OnMultiClickEvent
  m_now,          \* the clock
  m_pin,          \* level of the pin: "released" | "pressed"
  m_lastEdge,     \* time of the last edge of the pin
  m_irqFlag,      \* _irq_flag
  m_last,         \* _last_state
  m_current,      \* _current_state
  m_pressFlag,    \* _on_press_flag
  m_releaseFlag,  \* _on_release_flag
  m_longFlag,     \* _on_longPress_flag
  m_pressStart,   \* _press_start_time_ms
  m_count,        \* _multiClick_count
  m_longAt,       \* expiry time of the long-press timer (-1: stopped)
  m_windows,      \* expiry times of the multi-click window timers, in order
  m_longTrues,    \* history: polls of the long-press detector that returned
                  \* True since the last stable press
  m_attemptEnd,   \* history: expiry of the window of the click that took
                  \* the counter from 0 to 1 (-1: no attempt is open)
  m_verdict,      \* history: the multi-click detector returned True in
                  \* the open attempt
  m_failed        \* history: the window of the last attempt ran out, the
                  \* detector had returned no True and would return none,
                  \* and no click has been counted since

cfVars == <<cf_threshold, cf_target, cf_cnt, cf_pc, cf_result, cf_reads,
            cf_flips, cf_prev, cf_seq>>

rtParams == <<rt_kind, rt_regime, rt_pressed, rt_threshold, rt_interval,
              rt_timeout, rt_times, rt_edges, rt_syncVerdict>>
rtFrame == <<rt_fpc, rt_fstart, rt_fend, rt_fcnt, rt_fret>>
rtLocals == <<rt_pc, rt_endTime, rt_clicks, rt_result>>
rtHistory == <<rt_detectAt, rt_tickStart, rt_relRun, rt_maxRelRun, rt_doneAt>>
rtVars == <<rtParams, rt_glitch, rt_now, rtFrame, rtLocals, rtHistory>>

dVars == <<d_pin, d_flag, d_enabled, d_loop, d_cnt, d_stops, d_raised,
           d_watch, d_seen>>

bVars == <<b_kind, b_interval, b_period, b_edges, b_now, b_pc, b_trues>>

iParams == <<i_interval, i_dperiod, i_edges>>
iButton == <<i_armed, i_irqFlag, i_lhActive, i_listenAt, i_agent, i_last,
             i_current, i_timer, i_timerAt, i_holdKind, i_toReleased,
             i_toPressed>>
iVars == <<iParams, i_next, i_now, i_pin, i_phase, iButton, i_pollAt,
           i_trues, i_lastEdge, i_quiet, i_stable, i_clearBy>>

ncVars == <<nc_start, nc_threshold, nc_level, nc_burst, nc_settled, nc_pc, nc_cnt,
            nc_trues, nc_falses, nc_bounced>>

oVars == <<o_variant, o_pressed, o_released, o_threshold, o_pin, o_cached,
           o_isPressed, o_isReleased, o_left, o_sum, o_state>>

hVars == <<h_flag, h_enabled, h_loop, h_handler, h_caught, h_outlived>>

tVars == <<t_runtime, t_phase, t_active, t_task, t_last, t_current,
           t_toReleased, t_toPressed, t_holdKind, t_sample, t_warned>>

fVars == <<f_fn, f_start, f_end, f_threshold, f_pc, f_i, f_cnt, f_result,
            f_seq, f_sleeps, f_left>>

sVars == <<s_mode, s_pin, s_last, s_pc, s_fn, s_entry, s_entrySample,
            s_sample, s_result, s_presses, s_polls, s_reported>>

aVars == <<a_async, a_interval, a_now, a_active, a_ref, a_task, a_wake,
            a_made, a_armedAt, a_runs, a_quiet, a_redone>>

mVars == <<m_timeout, m_window, m_min, m_now, m_pin, m_lastEdge, m_irqFlag,
            m_last, m_current, m_pressFlag, m_releaseFlag, m_longFlag,
            m_pressStart, m_count, m_longAt, m_windows, m_longTrues,
            m_attemptEnd, m_verdict, m_failed>>

vars == <<cfVars, rtVars, dVars, bVars, iVars, ncVars, oVars, hVars, tVars,
          fVars, sVars, aVars,
          mVars>>

\* What the actions of one group leave unchanged: the other groups.
cfOthers == <<rtVars, dVars, bVars, iVars, ncVars, oVars, hVars, tVars,
  fVars,
  sVars,
  aVars,
  mVars>>
rtOthers == <<cfVars, dVars, bVars, iVars, ncVars, oVars, hVars, tVars,
  fVars,
  sVars,
  aVars,
  mVars>>
dOthers == <<cfVars, rtVars, bVars, iVars, ncVars, oVars, hVars, tVars,
  fVars,
  sVars,
  aVars,
  mVars>>
bOthers == <<cfVars, rtVars, dVars, iVars, ncVars, oVars, hVars, tVars,
  fVars,
  sVars,
  aVars,
  mVars>>
iOthers == <<cfVars, rtVars, dVars, bVars, ncVars, oVars, hVars, tVars,
  fVars,
  sVars,
  aVars,
  mVars>>
ncOthers == <<cfVars, rtVars, dVars, bVars, iVars, oVars, hVars, tVars,
  fVars,
  sVars,
  aVars,
  mVars>>
oOthers == <<cfVars, rtVars, dVars, bVars, iVars, ncVars, hVars, tVars,
  fVars,
  sVars,
  aVars,
  mVars>>
hOthers == <<cfVars, rtVars, dVars, bVars, iVars, ncVars, oVars, tVars,
  fVars,
  sVars,
  aVars,
  mVars>>
tOthers == <<cfVars, rtVars, dVars, bVars, iVars, ncVars, oVars, hVars,
  fVars,
  sVars,
  aVars,
  mVars>>
fOthers == <<cfVars, rtVars, dVars, bVars, iVars, ncVars, oVars, hVars, tVars,
  sVars,
  aVars,
  mVars>>
sOthers == <<cfVars, rtVars, dVars, bVars, iVars, ncVars, oVars, hVars, tVars,
  fVars,
  aVars,
  mVars>>
aOthers == <<cfVars, rtVars, dVars, bVars, iVars, ncVars, oVars, hVars, tVars,
  fVars, sVars,
  mVars>>
mOthers == <<cfVars, rtVars, dVars, bVars, iVars, ncVars, oVars, hVars, tVars,
  fVars, sVars, aVars>>

\* ------------------------------------------------------- countFiltering
\* A loop condition that reads on at the threshold itself.
countFiltering_inLoop_inclusive(cnt, threshold) ==
  -threshold <= cnt /\ cnt <= threshold

\* The loop condition  -threshold < cnt < threshold.
countFiltering_inLoop(cnt, threshold) == -threshold < cnt /\ cnt < threshold

\* A counter that steps by one towards the other side instead of restarting.
countFiltering_count_decrement(cnt, match) ==
  IF match THEN cnt + 1 ELSE cnt - 1

\* The counter update of one sample: a run-length counter that restarts at
\* +1 / -1 when the sample disagrees with the current run.
countFiltering_count(cnt, match) ==
  IF match
    THEN (IF cnt >= 0 THEN cnt + 1 ELSE 1)
    ELSE (IF cnt <= 0 THEN cnt - 1 ELSE -1)

\* The returned verdict.
countFiltering_verdict(cnt, threshold) == cnt >= threshold

CFInit ==
  /\ cf_threshold \in 1..MaxThreshold
  /\ cf_target \in PinLevels
  /\ cf_cnt = 0
  /\ cf_pc = "loop"
  /\ cf_result = FALSE
  /\ cf_reads = 0
  /\ cf_flips = 0
  /\ cf_prev = "none"
  /\ cf_seq = <<>>

\* The state of the group while another specification runs.
CFIdle ==
  /\ cf_threshold = 1
  /\ cf_target = 1
  /\ cf_cnt = 0
  /\ cf_pc = "idle"
  /\ cf_result = FALSE
  /\ cf_reads = 0
  /\ cf_flips = 0
  /\ cf_prev = "none"
  /\ cf_seq = <<>>

\* One iteration of the while loop: read the pin, update cnt, sleep.
countFiltering_sample ==
  /\ cf_pc = "loop"
  /\ countFiltering_inLoop(cf_cnt, cf_threshold)
  /\ cf_reads < MaxReads
  /\ \E v \in PinLevels :
       LET match == (v = cf_target) IN
       LET verdict == IF match THEN "match" ELSE "miss" IN
       /\ cf_cnt' = countFiltering_count(cf_cnt, match)
       /\ cf_flips' = IF cf_prev \notin {"none", verdict}
                        THEN cf_flips + 1 ELSE cf_flips
       /\ cf_prev' = verdict
       /\ cf_seq' = Append(cf_seq, v)
  /\ cf_reads' = cf_reads + 1
  /\ UNCHANGED <<cf_threshold, cf_target, cf_pc, cf_result>>
  /\ UNCHANGED cfOthers

\* The loop condition fails: return cnt >= threshold.
countFiltering_return ==
  /\ cf_pc = "loop"
  /\ ~countFiltering_inLoop(cf_cnt, cf_threshold)
  /\ cf_pc' = "done"
  /\ cf_result' = countFiltering_verdict(cf_cnt, cf_threshold)
  /\ UNCHANGED <<cf_threshold, cf_target, cf_cnt, cf_reads, cf_flips, cf_prev,
                 cf_seq>>
  /\ UNCHANGED cfOthers

\* ------------------------------------------- RealTimeButton detectors
\* The level of the pin waveform at time t: released before the first
\* edge, and changed by every edge.
RT_wave(t) ==
  IF Cardinality({k \in DOMAIN rt_edges : rt_edges[k] <= t}) % 2 = 1
    THEN rt_pressed ELSE 1 - rt_pressed

\* What pin.value() may return now: the level of the waveform, or, while
\* the button is held and noise is left, the released level.
RT_pinReads ==
  {RT_wave(rt_now)} \cup
    (IF rt_kind = "long" /\ rt_glitch < MaxGlitch
          /\ RT_wave(rt_now) = rt_pressed
       THEN {1 - rt_pressed} ELSE {})

RT_glitchAfter(v) == IF v = RT_wave(rt_now) THEN rt_glitch ELSE rt_glitch + 1

\* The attributes of the event object that exist when __init__ validates
\* its arguments: those Event.__init__ sets, and self.object.
Event_attrsAtValidation == {"object", "args", "kwargs"}

\* __init__ of OnLongPressEvent / OnMultiClickEvent: the validation logs a
\* warning built from self.log_name, which is assigned only afterwards.
OnEvent_initInvalid(kind, times, timeout) ==
  \/ kind = "long" /\ timeout < 1
  \/ kind = "multi" /\ (times < 1 \/ timeout < 1)

OnEvent_initRaises(kind, times, timeout) ==
  /\ OnEvent_initInvalid(kind, times, timeout)
  /\ "log_name" \notin Event_attrsAtValidation

\* The guard at the top of monitor_sync / monitor_async.
OnEvent_monitorRejects(kind, times, timeout) ==
  \/ kind = "long" /\ timeout <= 0
  \/ kind = "multi" /\ (times <= 0 \/ timeout <= 0)

\* endTime = Time.current_ms() + self.timeout_ms, taken too early.
OnEvent_endTime_noTimeout(now, timeout) == now

\* endTime = Time.current_ms() + self.timeout_ms
OnEvent_endTime(now, timeout) == now + timeout

\* The wait loop of the long press with the deadline looked at first.
OnLongPressEvent_tick_deadlineFirst(stable, nowAfterSleep, endTime) ==
  IF nowAfterSleep >= endTime THEN "true"
  ELSE IF ~stable THEN "false" ELSE "again"

\* One tick of the long-press wait loop: the stability check, the sleep,
\* the deadline test.  "again" is the next tick.
OnLongPressEvent_tick(stable, nowAfterSleep, endTime) ==
  IF ~stable THEN "false"
  ELSE IF nowAfterSleep >= endTime THEN "true" ELSE "again"

RTWaveforms(kind) ==
  IF kind = "multi"
    THEN {<<p, p + h, p + h + g, p + h + g + h>> :
            p \in 1..MaxLead, h \in 1..MaxGap, g \in 1..MaxGap}
    ELSE {<<p, p + h>> : p \in 1..MaxLead, h \in 1..MaxHold}
         \cup {<<p>> : p \in 1..MaxLead}

RTInit ==
  /\ rt_kind \in {"press", "release", "long", "multi"}
  /\ rt_regime \in {"sync", "async"}
  /\ rt_pressed \in PinLevels
  /\ rt_threshold \in 1..RTMaxThreshold
  /\ rt_interval \in 1..RTMaxInterval
  /\ rt_timeout \in IF rt_kind \in {"long", "multi"} THEN 0..MaxTimeout ELSE {1}
  /\ rt_times \in IF rt_kind = "multi" THEN 0..2 ELSE {1}
  /\ rt_edges \in RTWaveforms(rt_kind)
  /\ rt_syncVerdict = "none"
  /\ rt_glitch = 0
  /\ rt_now = 0
  /\ rt_pc = "init"
  /\ rt_fpc = "idle" /\ rt_fstart = 0 /\ rt_fend = 0 /\ rt_fcnt = 0
  /\ rt_fret = "none"
  /\ rt_endTime = 0 /\ rt_clicks = 0 /\ rt_result = "none"
  /\ rt_detectAt = 0 /\ rt_tickStart = 0 /\ rt_relRun = 0
  /\ rt_maxRelRun = 0 /\ rt_doneAt = 0

RTIdle ==
  /\ rt_kind = "none" /\ rt_regime = "sync" /\ rt_pressed = 0
  /\ rt_threshold = 1 /\ rt_interval = 1 /\ rt_timeout = 1 /\ rt_times = 1
  /\ rt_edges = <<>> /\ rt_syncVerdict = "none" /\ rt_glitch = 0 /\ rt_now = 0
  /\ rt_pc = "idle"
  /\ rt_fpc = "idle" /\ rt_fstart = 0 /\ rt_fend = 0 /\ rt_fcnt = 0
  /\ rt_fret = "none"
  /\ rt_endTime = 0 /\ rt_clicks = 0 /\ rt_result = "none"
  /\ rt_detectAt = 0 /\ rt_tickStart = 0 /\ rt_relRun = 0
  /\ rt_maxRelRun = 0 /\ rt_doneAt = 0

\* Calls of the filters by the detector, and a return without a call.
RT_callChangedStably(start, end) ==
  /\ rt_fpc' = "first" /\ rt_fstart' = start /\ rt_fend' = end
  /\ rt_fcnt' = 0 /\ rt_fret' = "none"
RT_callCountFiltering(target) ==
  /\ rt_fpc' = "count" /\ rt_fstart' = target /\ rt_fend' = target
  /\ rt_fcnt' = 0 /\ rt_fret' = "none"
RT_noCall ==
  /\ rt_fpc' = "idle" /\ rt_fret' = "none"
  /\ UNCHANGED <<rt_fstart, rt_fend, rt_fcnt>>
RT_return(result) ==
  /\ rt_pc' = "done" /\ rt_result' = result /\ RT_noCall

RT_released == 1 - rt_pressed
RT_returned == rt_fpc = "idle" /\ rt_fret # "none"

\* --- the filters, as called on the button's pin
\* isChangedStably: the first read; not at start: sleep, return False.
isChangedStably_first ==
  /\ rt_fpc = "first"
  /\ rt_now < MaxTime
  /\ \E v \in RT_pinReads :
       /\ rt_glitch' = RT_glitchAfter(v)
       /\ IF v # rt_fstart
            THEN /\ rt_now' = rt_now + rt_interval
                 /\ rt_fpc' = "idle" /\ rt_fret' = "false"
            ELSE /\ rt_fpc' = "wait" /\ UNCHANGED <<rt_now, rt_fret>>
  /\ UNCHANGED <<rtParams, rt_fstart, rt_fend, rt_fcnt, rtLocals, rtHistory>>
  /\ UNCHANGED rtOthers

\* isChangedStably: while pin.value() == start_signal: sleep; then the
\* call of countFiltering on end_signal.
isChangedStably_wait ==
  /\ rt_fpc = "wait"
  /\ rt_now < MaxTime
  /\ \E v \in RT_pinReads :
       /\ rt_glitch' = RT_glitchAfter(v)
       /\ IF v = rt_fstart
            THEN /\ rt_now' = rt_now + rt_interval
                 /\ UNCHANGED <<rt_fpc, rt_fcnt>>
            ELSE /\ rt_fpc' = "count" /\ rt_fcnt' = 0 /\ UNCHANGED rt_now
  /\ UNCHANGED <<rtParams, rt_fstart, rt_fend, rt_fret, rtLocals, rtHistory>>
  /\ UNCHANGED rtOthers

\* countFiltering on the button's pin: one sample and its sleep.
RT_countFiltering_sample ==
  /\ rt_fpc = "count"
  /\ countFiltering_inLoop(rt_fcnt, rt_threshold)
  /\ rt_now < MaxTime
  /\ \E v \in RT_pinReads :
       /\ rt_glitch' = RT_glitchAfter(v)
       /\ rt_fcnt' = countFiltering_count(rt_fcnt, v = rt_fend)
       /\ LET run == IF rt_pc = "lp_hold" /\ v = RT_released
                       THEN rt_relRun + 1 ELSE 0 IN
          /\ rt_relRun' = run
          /\ rt_maxRelRun' = IF run > rt_maxRelRun THEN run ELSE rt_maxRelRun
  /\ rt_now' = rt_now + rt_interval
  /\ UNCHANGED <<rtParams, rt_fpc, rt_fstart, rt_fend, rt_fret, rtLocals,
                 rt_detectAt, rt_tickStart, rt_doneAt>>
  /\ UNCHANGED rtOthers

RT_countFiltering_return ==
  /\ rt_fpc = "count"
  /\ ~countFiltering_inLoop(rt_fcnt, rt_threshold)
  /\ rt_fpc' = "idle"
  /\ rt_fret' = IF countFiltering_verdict(rt_fcnt, rt_threshold)
                  THEN "true" ELSE "false"
  /\ UNCHANGED <<rtParams, rt_glitch, rt_now, rt_fstart, rt_fend, rt_fcnt,
                 rtLocals, rtHistory>>
  /\ UNCHANGED rtOthers

\* --- the detectors
\* __init__ of the event class.
OnEvent_init ==
  /\ rt_pc = "init"
  /\ IF OnEvent_initRaises(rt_kind, rt_times, rt_timeout)
       THEN RT_return("raised")
       ELSE rt_pc' = "start" /\ UNCHANGED <<rt_result, rtFrame>>
  /\ UNCHANGED <<rtParams, rt_glitch, rt_now, rt_endTime, rt_clicks, rtHistory>>
  /\ UNCHANGED rtOthers

\* OnPressEvent / OnReleaseEvent.monitor: the call of isToStablyPressed /
\* isToStablyReleased, and the return of its result.
OnPressReleaseEvent_monitor ==
  /\ rt_kind \in {"press", "release"}
  /\ \/ /\ rt_pc = "start"
        /\ IF rt_kind = "press"
             THEN RT_callChangedStably(RT_released, rt_pressed)
             ELSE RT_callChangedStably(rt_pressed, RT_released)
        /\ rt_pc' = "pr_wait"
        /\ UNCHANGED rt_result
     \/ /\ rt_pc = "pr_wait" /\ RT_returned
        /\ RT_return(rt_fret)
  /\ UNCHANGED <<rtParams, rt_glitch, rt_now, rt_endTime, rt_clicks, rtHistory>>
  /\ UNCHANGED rtOthers

\* OnLongPressEvent.monitor: the guard and the call of isToStablyPressed.
OnLongPressEvent_monitor_begin ==
  /\ rt_kind = "long" /\ rt_pc = "start"
  /\ IF OnEvent_monitorRejects(rt_kind, rt_times, rt_timeout)
       THEN RT_return("false")
       ELSE /\ RT_callChangedStably(RT_released, rt_pressed)
            /\ rt_pc' = "lp_toPressed" /\ UNCHANGED rt_result
  /\ UNCHANGED <<rtParams, rt_glitch, rt_now, rt_endTime, rt_clicks, rtHistory>>
  /\ UNCHANGED rtOthers

\* isToStablyPressed returned: take the deadline and enter the wait loop.
OnLongPressEvent_monitor_toPressed ==
  /\ rt_kind = "long" /\ rt_pc = "lp_toPressed" /\ RT_returned
  /\ IF rt_fret = "true"
       THEN /\ rt_endTime' = OnEvent_endTime(rt_now, rt_timeout)
            /\ RT_callCountFiltering(rt_pressed)
            /\ rt_pc' = "lp_hold"
            /\ rt_detectAt' = rt_now /\ rt_tickStart' = rt_now
            /\ UNCHANGED rt_result
       ELSE /\ RT_return("false")
            /\ UNCHANGED <<rt_endTime, rt_detectAt, rt_tickStart>>
  /\ UNCHANGED <<rtParams, rt_glitch, rt_now, rt_clicks, rt_relRun,
                 rt_maxRelRun, rt_doneAt>>
  /\ UNCHANGED rtOthers

\* One tick of the wait loop, after isStablyPressed returned.
OnLongPressEvent_monitor_hold ==
  /\ rt_kind = "long" /\ rt_pc = "lp_hold" /\ RT_returned
  /\ LET stable == (rt_fret = "true")
         after == IF stable THEN rt_now + rt_interval ELSE rt_now
         out == OnLongPressEvent_tick(stable, after, rt_endTime) IN
     /\ rt_now' = IF out = "false" THEN rt_now ELSE rt_now + rt_interval
     /\ IF out = "again"
          THEN /\ RT_callCountFiltering(rt_pressed)
               /\ rt_tickStart' = rt_now'
               /\ UNCHANGED <<rt_pc, rt_result>>
          ELSE /\ RT_return(out) /\ UNCHANGED rt_tickStart
  /\ UNCHANGED <<rtParams, rt_glitch, rt_endTime, rt_clicks, rt_detectAt,
                 rt_relRun, rt_maxRelRun, rt_doneAt>>
  /\ UNCHANGED rtOthers

\* The sleep and the deadline test that follow a filter call that
\* returned False inside the multi-click loops: "false" ends the poll.
OnMultiClickEvent_retry(nowAfterSleep, endTime) ==
  IF nowAfterSleep >= endTime THEN "false" ELSE "again"

\* OnMultiClickEvent.monitor: the guard and the call of isToStablyPressed.
OnMultiClickEvent_monitor_begin ==
  /\ rt_kind = "multi" /\ rt_pc = "start"
  /\ IF OnEvent_monitorRejects(rt_kind, rt_times, rt_timeout)
       THEN RT_return("false")
       ELSE /\ RT_callChangedStably(RT_released, rt_pressed)
            /\ rt_pc' = "mc_first" /\ UNCHANGED rt_result
  /\ UNCHANGED <<rtParams, rt_glitch, rt_now, rt_endTime, rt_clicks, rtHistory>>
  /\ UNCHANGED rtOthers

\* The call that waits for the release of the first click: isStablyReleased
\* in monitor_sync, isToStablyReleased in monitor_async.
OnMultiClickEvent_callFirstRelease ==
  IF rt_regime = "sync"
    THEN RT_callCountFiltering(RT_released)
    ELSE RT_callChangedStably(rt_pressed, RT_released)

\* isToStablyPressed returned: take the deadline, wait for the release.
OnMultiClickEvent_monitor_first ==
  /\ rt_kind = "multi" /\ rt_pc = "mc_first" /\ RT_returned
  /\ IF rt_fret = "true"
       THEN /\ rt_endTime' = OnEvent_endTime(rt_now, rt_timeout)
            /\ OnMultiClickEvent_callFirstRelease
            /\ rt_pc' = "mc_release1"
            /\ rt_detectAt' = rt_now
            /\ UNCHANGED rt_result
       ELSE /\ RT_return("false")
            /\ UNCHANGED <<rt_endTime, rt_detectAt>>
  /\ UNCHANGED <<rtParams, rt_glitch, rt_now, rt_clicks, rt_tickStart,
                 rt_relRun, rt_maxRelRun, rt_doneAt>>
  /\ UNCHANGED rtOthers

\* The loop that waits for the release of the first click; then
\* current_clicks = 1 and the test of  while current_clicks < self.times.
OnMultiClickEvent_monitor_release1 ==
  /\ rt_kind = "multi" /\ rt_pc = "mc_release1" /\ RT_returned
  /\ IF rt_fret = "true"
       THEN /\ rt_clicks' = 1
            /\ rt_doneAt' = rt_now
            /\ UNCHANGED rt_now
            /\ IF 1 < rt_times
                 THEN /\ RT_callChangedStably(RT_released, rt_pressed)
                      /\ rt_pc' = "mc_press" /\ UNCHANGED rt_result
                 ELSE RT_return("true")
       ELSE /\ rt_now' = rt_now + rt_interval
            /\ UNCHANGED <<rt_clicks, rt_doneAt>>
            /\ IF OnMultiClickEvent_retry(rt_now', rt_endTime) = "false"
                 THEN RT_return("false")
                 ELSE /\ OnMultiClickEvent_callFirstRelease
                      /\ UNCHANGED <<rt_pc, rt_result>>
  /\ UNCHANGED <<rtParams, rt_glitch, rt_endTime, rt_detectAt, rt_tickStart,
                 rt_relRun, rt_maxRelRun>>
  /\ UNCHANGED rtOthers

\* while not isToStablyPressed(): sleep; deadline test  (the next press).
OnMultiClickEvent_monitor_press ==
  /\ rt_kind = "multi" /\ rt_pc = "mc_press" /\ RT_returned
  /\ IF rt_fret = "true"
       THEN /\ RT_callChangedStably(rt_pressed, RT_released)
            /\ rt_pc' = "mc_release"
            /\ UNCHANGED <<rt_now, rt_result>>
       ELSE /\ rt_now' = rt_now + rt_interval
            /\ IF OnMultiClickEvent_retry(rt_now', rt_endTime) = "false"
                 THEN RT_return("false")
                 ELSE /\ RT_callChangedStably(RT_released, rt_pressed)
                      /\ UNCHANGED <<rt_pc, rt_result>>
  /\ UNCHANGED <<rtParams, rt_glitch, rt_endTime, rt_clicks, rtHistory>>
  /\ UNCHANGED rtOthers

\* while not isToStablyReleased(): sleep; deadline test  (its release);
\* then current_clicks += 1, the sleep, and the loop test.
OnMultiClickEvent_monitor_release ==
  /\ rt_kind = "multi" /\ rt_pc = "mc_release" /\ RT_returned
  /\ rt_now' = rt_now + rt_interval
  /\ IF rt_fret = "true"
       THEN /\ rt_clicks' = rt_clicks + 1
            /\ rt_doneAt' = rt_now
            /\ IF rt_clicks' < rt_times
                 THEN /\ RT_callChangedStably(RT_released, rt_pressed)
                      /\ rt_pc' = "mc_press" /\ UNCHANGED rt_result
                 ELSE RT_return("true")
       ELSE /\ UNCHANGED <<rt_clicks, rt_doneAt>>
            /\ IF OnMultiClickEvent_retry(rt_now', rt_endTime) = "false"
                 THEN RT_return("false")
                 ELSE /\ RT_callChangedStably(rt_pressed, RT_released)
                      /\ UNCHANGED <<rt_pc, rt_result>>
  /\ UNCHANGED <<rtParams, rt_glitch, rt_endTime, rt_detectAt, rt_tickStart,
                 rt_relRun, rt_maxRelRun>>
  /\ UNCHANGED rtOthers

\* ------------------------- ImmediateDebounceButton under a ListenerHandler
\* The button at time t: released before the press and after the release.
Btn_wave(t) ==
  IF b_edges[1] <= t /\ t < b_edges[2] THEN "pressed" ELSE "released"

\* isToPressed starts from released and ends at pressed; isToReleased the
\* other way round.
Btn_from(kind) == IF kind = "press" THEN "released" ELSE "pressed"
Btn_to(kind) == IF kind = "press" THEN "pressed" ELSE "released"

BtnInit ==
  /\ b_kind \in {"press", "release"}
  /\ b_interval \in 1..BtnMaxInterval
  /\ b_period \in 1..BtnMaxPeriod
  /\ b_edges \in {<<p, p + h>> : p \in 1..BtnMaxLead, h \in 1..BtnMaxHold}
  /\ b_now = 0
  /\ b_pc = "test"
  /\ b_trues = 0

BtnIdle ==
  /\ b_kind = "none" /\ b_interval = 1 /\ b_period = 1
  /\ b_edges = <<>> /\ b_now = 0 /\ b_pc = "idle" /\ b_trues = 0

\* listen() polls the listener, whose listen() is isToPressed /
\* isToReleased of the button: isReleased / isPressed sleeps 1 ms and
\* reads the pin; a pin that is not at the start level ends the poll
\* with False.
AsyncListener_listen_first ==
  /\ b_pc = "test"
  /\ b_now < BtnMaxTime
  /\ b_now' = b_now + 1
  /\ b_pc' = IF Btn_wave(b_now + 1) = Btn_from(b_kind) THEN "second" ELSE "sleep"
  /\ UNCHANGED <<b_kind, b_interval, b_period, b_edges, b_trues>>
  /\ UNCHANGED bOthers

\* The sleep of interval_ms, and the second read after 1 ms more: the
\* poll is True when the pin is now at the end level, and the handler is
\* spawned.
AsyncListener_listen_second ==
  /\ b_pc = "second"
  /\ b_now' = b_now + b_interval + 1
  /\ b_trues' = IF Btn_wave(b_now + b_interval + 1) = Btn_to(b_kind)
                  THEN b_trues + 1 ELSE b_trues
  /\ b_pc' = "sleep"
  /\ UNCHANGED <<b_kind, b_interval, b_period, b_edges>>
  /\ UNCHANGED bOthers

\* await Sleep.async_ms(self.period_ms)
AsyncListenerHandler_listen_period ==
  /\ b_pc = "sleep"
  /\ b_now' = b_now + b_period
  /\ b_pc' = "test"
  /\ UNCHANGED <<b_kind, b_interval, b_period, b_edges, b_trues>>
  /\ UNCHANGED bOthers

\* ----------------------------------- EventHandler / ListenerHandler
\* Three dispatcher bindings: two EventHandlers of a RealTimeButton,
\* whose event is OnPressEvent, one started with start_sync (the loop is
\* monitor_sync in a thread) and one with start_async (the loop is
\* monitor_async in a task); and a ListenerHandler over a
\* BooleanFlagListener.
EventHandlerBindings == {"thread", "task"}
DispBindings == EventHandlerBindings \cup {"listener"}

\* self.enabled = False (EventHandler.stop)
EventHandler_stopped_toggle(enabled) == ~enabled
EventHandler_stopped(enabled) == FALSE

\* self.active = False (ListenerHandler.deactivate)
ListenerHandler_deactivated(active) == FALSE
\* The bindings whose flag one stop() writes: `self.enabled` is an
\* attribute of the EventHandler object the method is called on.
EventHandler_stopScope_button(b) == EventHandlerBindings
EventHandler_stopScope(b) == {b}

\* The stop counter of the history, which stays at MaxStops.
Disp_countStop(n) == IF n < MaxStops THEN n + 1 ELSE n

\* The history of the followed binding.  An event of its kind (the button
\* of an EventHandler binding is pressed, the flag of the listener binding
\* is set) while it is enabled and started begins a new count; a handler
\* call counts for the last event, "twice" standing for two calls or more.
Disp_seenEvent(b, seen) ==
  IF d_watch # b \/ seen = "twice" THEN seen
  ELSE IF d_enabled[b] /\ d_loop[b] # "none" THEN "none" ELSE "idle"
Disp_seenHandled(b, seen) ==
  IF d_watch # b THEN seen
  ELSE IF seen \in {"idle", "none"} THEN "once" ELSE "twice"

DispInit ==
  /\ d_watch = "none" /\ d_seen = "idle"
  /\ d_pin \in {"released", "pressed"}
  /\ d_flag \in BOOLEAN
  /\ d_enabled = [b \in DispBindings |-> b \in EventHandlerBindings]
  /\ d_loop = [b \in DispBindings |-> "none"]
  /\ d_cnt = [b \in EventHandlerBindings |-> 0]
  /\ d_stops = [b \in DispBindings |-> 0]
  /\ d_raised = [b \in DispBindings |-> FALSE]

\* The same, with one binding followed.
DispWatchInit ==
  /\ d_watch \in DispBindings /\ d_seen = "idle"
  /\ d_pin \in {"released", "pressed"}
  /\ d_flag \in BOOLEAN
  /\ d_enabled = [b \in DispBindings |-> b \in EventHandlerBindings]
  /\ d_loop = [b \in DispBindings |-> "none"]
  /\ d_cnt = [b \in EventHandlerBindings |-> 0]
  /\ d_stops = [b \in DispBindings |-> 0]
  /\ d_raised = [b \in DispBindings |-> FALSE]

DispIdle ==
  /\ d_watch = "none" /\ d_seen = "idle"
  /\ d_pin = "released"
  /\ d_flag = FALSE
  /\ d_enabled = [b \in DispBindings |-> b \in EventHandlerBindings]
  /\ d_loop = [b \in DispBindings |-> "idle"]
  /\ d_cnt = [b \in EventHandlerBindings |-> 0]
  /\ d_stops = [b \in DispBindings |-> 0]
  /\ d_raised = [b \in DispBindings |-> FALSE]

\* The button is pressed or released; the flag is set or cleared
\* (BooleanFlag.activate / deactivate).
Pin_change ==
  /\ d_pin' = IF d_pin = "released" THEN "pressed" ELSE "released"
  /\ d_seen' = IF d_pin' = "pressed" /\ d_watch \in EventHandlerBindings
                 THEN Disp_seenEvent(d_watch, d_seen) ELSE d_seen
  /\ UNCHANGED <<d_flag, d_enabled, d_loop, d_cnt, d_stops, d_raised, d_watch>>
  /\ UNCHANGED dOthers

BooleanFlag_change ==
  /\ d_flag' = ~d_flag
  /\ d_seen' = IF d_flag' THEN Disp_seenEvent("listener", d_seen) ELSE d_seen
  /\ UNCHANGED <<d_pin, d_enabled, d_loop, d_cnt, d_stops, d_raised, d_watch>>
  /\ UNCHANGED dOthers

\* start_sync / start_async: the flag is set and the loop is spawned.  A
\* binding is started once.
EventHandler_start(b) ==
  /\ b \in EventHandlerBindings
  /\ d_loop[b] = "none"
  /\ d_enabled' = [d_enabled EXCEPT ![b] = TRUE]
  /\ d_loop' = [d_loop EXCEPT ![b] = "test"]
  /\ d_stops' = [d_stops EXCEPT ![b] = 0]
  /\ UNCHANGED <<d_pin, d_flag, d_cnt, d_raised, d_watch, d_seen>>
  /\ UNCHANGED dOthers

ListenerHandler_activate ==
  /\ d_loop["listener"] = "none"
  /\ d_enabled' = [d_enabled EXCEPT !["listener"] = TRUE]
  /\ d_loop' = [d_loop EXCEPT !["listener"] = "test"]
  /\ d_stops' = [d_stops EXCEPT !["listener"] = 0]
  /\ UNCHANGED <<d_pin, d_flag, d_cnt, d_raised, d_watch, d_seen>>
  /\ UNCHANGED dOthers

\* stop: the flag is cleared; nothing is joined or cancelled.
EventHandler_stop(b) ==
  /\ b \in EventHandlerBindings
  /\ d_enabled' = [c \in DispBindings |->
                     IF c \in EventHandler_stopScope(b)
                       THEN EventHandler_stopped(d_enabled[c])
                       ELSE d_enabled[c]]
  /\ d_stops' = [d_stops EXCEPT ![b] = Disp_countStop(@)]
  /\ UNCHANGED <<d_pin, d_flag, d_loop, d_cnt, d_raised, d_watch, d_seen>>
  /\ UNCHANGED dOthers

ListenerHandler_deactivate ==
  /\ d_enabled' =
       [d_enabled EXCEPT !["listener"] = ListenerHandler_deactivated(@)]
  /\ d_stops' = [d_stops EXCEPT !["listener"] = Disp_countStop(@)]
  /\ UNCHANGED <<d_pin, d_flag, d_loop, d_cnt, d_raised, d_watch, d_seen>>
  /\ UNCHANGED dOthers

\* Button.stopEventHandlers of RealTimeButton: eh.stop() for every
\* EventHandler of the button.  (StateMechanismButton stops its
\* EventHandlers by the same loop; the timers it stops before that go
\* through AsyncTimer.stop, which System/Timer.py does not define, and are
\* not modelled here.)
Button_stopEventHandlers ==
  /\ d_enabled' = [b \in DispBindings |->
                     IF b \in EventHandlerBindings
                       THEN EventHandler_stopped(d_enabled[b])
                       ELSE d_enabled[b]]
  /\ d_stops' = [b \in DispBindings |->
                   IF b \in EventHandlerBindings
                     THEN Disp_countStop(d_stops[b]) ELSE d_stops[b]]
  /\ UNCHANGED <<d_pin, d_flag, d_loop, d_cnt, d_raised, d_watch, d_seen>>
  /\ UNCHANGED dOthers

\* `while self.enabled:` of monitor_sync / monitor_async; an enabled loop
\* polls the event, which for OnPressEvent is isChangedStably from
\* released to pressed.
EventHandler_monitor_test(b) ==
  /\ b \in EventHandlerBindings
  /\ d_loop[b] = "test"
  /\ d_loop' = [d_loop EXCEPT ![b] = IF d_enabled[b] THEN "first" ELSE "exited"]
  /\ UNCHANGED <<d_pin, d_flag, d_enabled, d_cnt, d_stops, d_raised, d_watch, d_seen>>
  /\ UNCHANGED dOthers

\* isChangedStably: a pin that is not at the start level ends the poll
\* with False.
EventHandler_isChangedStably_first(b) ==
  /\ b \in EventHandlerBindings
  /\ d_loop[b] = "first"
  /\ d_loop' = [d_loop EXCEPT ![b] = IF d_pin = "released" THEN "wait" ELSE "test"]
  /\ UNCHANGED <<d_pin, d_flag, d_enabled, d_cnt, d_stops, d_raised, d_watch, d_seen>>
  /\ UNCHANGED dOthers

\* isChangedStably: `while pin.value() == start_signal: sleep`, the read
\* and the sleep; when the pin has left the start level countFiltering is
\* called.
EventHandler_isChangedStably_wait(b) ==
  /\ b \in EventHandlerBindings
  /\ d_loop[b] = "wait"
  /\ d_loop' = [d_loop EXCEPT ![b] = IF d_pin = "released" THEN "wsleep" ELSE "count"]
  /\ d_cnt' = [d_cnt EXCEPT ![b] = 0]
  /\ UNCHANGED <<d_pin, d_flag, d_enabled, d_stops, d_raised, d_watch, d_seen>>
  /\ UNCHANGED dOthers

EventHandler_isChangedStably_sleep(b) ==
  /\ b \in EventHandlerBindings
  /\ d_loop[b] = "wsleep"
  /\ d_loop' = [d_loop EXCEPT ![b] = "wait"]
  /\ UNCHANGED <<d_pin, d_flag, d_enabled, d_cnt, d_stops, d_raised, d_watch, d_seen>>
  /\ UNCHANGED dOthers

\* countFiltering(pressed): one read and sleep; after the loop the verdict
\* is the result of the poll, and a True poll calls the handler.
EventHandler_countFiltering_sample(b) ==
  /\ b \in EventHandlerBindings
  /\ d_loop[b] = "count"
  /\ LET cnt == countFiltering_count(d_cnt[b], d_pin = "pressed")
     IN IF countFiltering_inLoop(cnt, DispThreshold)
          THEN /\ d_cnt' = [d_cnt EXCEPT ![b] = cnt]
               /\ UNCHANGED d_loop
          ELSE /\ d_cnt' = [d_cnt EXCEPT ![b] = 0]
               /\ d_loop' = [d_loop EXCEPT ![b] =
                    IF countFiltering_verdict(cnt, DispThreshold)
                      THEN "handle" ELSE "test"]
  /\ UNCHANGED <<d_pin, d_flag, d_enabled, d_stops, d_raised, d_watch, d_seen>>
  /\ UNCHANGED dOthers

\* self.handler.handle_sync() / await self.handler.handle_async(), called
\* in the loop itself: a handler that raises ends the thread or the task.
EventHandler_handle(b) ==
  /\ b \in EventHandlerBindings
  /\ d_loop[b] = "handle"
  /\ \E outcome \in {"ok", "raise"} :
       /\ d_loop' = [d_loop EXCEPT ![b] = IF outcome = "raise" THEN "dead" ELSE "test"]
       /\ d_raised' = [d_raised EXCEPT ![b] = @ \/ outcome = "raise"]
  /\ d_seen' = Disp_seenHandled(b, d_seen)
  /\ UNCHANGED <<d_pin, d_flag, d_enabled, d_cnt, d_stops, d_watch>>
  /\ UNCHANGED dOthers

\* listen(): `while self.active:`; a True listen() spawns the handler in a
\* thread or task of its own, where a raise stays.
ListenerHandler_listen_poll ==
  /\ d_loop["listener"] = "test"
  /\ IF ~d_enabled["listener"]
       THEN /\ d_loop' = [d_loop EXCEPT !["listener"] = "exited"]
            /\ UNCHANGED d_raised
       ELSE /\ d_loop' = [d_loop EXCEPT !["listener"] = "sleep"]
            /\ IF d_flag
                 THEN \E outcome \in {"ok", "raise"} :
                        d_raised' = [d_raised EXCEPT !["listener"] =
                                       @ \/ outcome = "raise"]
                 ELSE UNCHANGED d_raised
  /\ d_seen' = IF d_enabled["listener"] /\ d_flag
                 THEN Disp_seenHandled("listener", d_seen) ELSE d_seen
  /\ UNCHANGED <<d_pin, d_flag, d_enabled, d_cnt, d_stops, d_watch>>
  /\ UNCHANGED dOthers

\* await Sleep.async_ms(self.period_ms)
ListenerHandler_listen_sleep ==
  /\ d_loop["listener"] = "sleep"
  /\ d_loop' = [d_loop EXCEPT !["listener"] = "test"]
  /\ UNCHANGED <<d_pin, d_flag, d_enabled, d_cnt, d_stops, d_raised, d_watch, d_seen>>
  /\ UNCHANGED dOthers

\* The steps of the loop of binding b: what the scheduler runs.
Disp_loopStep(b) ==
  \/ EventHandler_monitor_test(b)
  \/ EventHandler_isChangedStably_first(b)
  \/ EventHandler_isChangedStably_wait(b)
  \/ EventHandler_isChangedStably_sleep(b)
  \/ EventHandler_countFiltering_sample(b)
  \/ EventHandler_handle(b)
  \/ b = "listener" /\ (ListenerHandler_listen_poll \/ ListenerHandler_listen_sleep)

\* The poll that monitor_sync has answered, without noisy read, is run
\* again from the construction as monitor_async: the same detector, the
\* same button, the same waveform, the clock at 0 again.
RT_again ==
  /\ rt_pc = "done" /\ rt_regime = "sync" /\ rt_syncVerdict = "none"
  /\ rt_glitch = 0
  /\ rt_syncVerdict' = rt_result
  /\ rt_regime' = "async"
  /\ rt_now' = 0
  /\ rt_pc' = "init"
  /\ rt_fpc' = "idle" /\ rt_fstart' = 0 /\ rt_fend' = 0 /\ rt_fcnt' = 0
  /\ rt_fret' = "none"
  /\ rt_endTime' = 0 /\ rt_clicks' = 0 /\ rt_result' = "none"
  /\ rt_detectAt' = 0 /\ rt_tickStart' = 0 /\ rt_relRun' = 0
  /\ rt_maxRelRun' = 0 /\ rt_doneAt' = 0
  /\ UNCHANGED <<rt_kind, rt_pressed, rt_threshold, rt_interval, rt_timeout,
                 rt_times, rt_edges, rt_glitch>>
  /\ UNCHANGED rtOthers

\* --------------------------------------- isChangedStably, called repeatedly
\* The first read of isChangedStably decides whether the call goes on:
\* a pin that is not at start_signal ends the call with False.
isChangedStably_rejects_never(read, start) == FALSE
isChangedStably_rejects(read, start) == read # start

NC_end == 1 - nc_start
NC_count(n) == IF n < NcMaxCount THEN n + 1 ELSE n

\* One sample of the pin goes by: a bounce sample if any is left, else a
\* sample at the genuine level.
NC_sample ==
  /\ nc_burst' = IF nc_burst > 0 THEN nc_burst - 1 ELSE 0
  /\ nc_settled' = (nc_settled \/ nc_burst = 0)

\* What pin.value() can return: the genuine level, or any level while the
\* pin bounces.
NC_reads == IF nc_burst > 0 THEN PinLevels ELSE {nc_level}
NC_read(v) ==
  /\ v \in NC_reads
  /\ NC_sample
  /\ nc_bounced' = (nc_bounced \/ v # nc_level)

ChatterInit ==
  /\ nc_start \in PinLevels
  /\ nc_threshold \in 1..NcMaxThreshold
  /\ nc_level \in PinLevels
  /\ nc_burst = 0 /\ nc_settled = TRUE
  /\ nc_pc = "first" /\ nc_cnt = 0
  /\ nc_trues = 0 /\ nc_falses = 0 /\ nc_bounced = FALSE

ChatterIdle ==
  /\ nc_start = 0 /\ nc_threshold = 1 /\ nc_level = 0 /\ nc_burst = 0
  /\ nc_settled = TRUE
  /\ nc_pc = "first" /\ nc_cnt = 0
  /\ nc_trues = 0 /\ nc_falses = 0 /\ nc_bounced = FALSE

\* The pin, settled at one level, genuinely changes to the other, and
\* bounces for fewer samples than the threshold.
Pin_genuineChange ==
  /\ nc_burst = 0 /\ nc_settled
  /\ nc_level' = 1 - nc_level
  /\ nc_burst' \in 0..(nc_threshold - 1)
  /\ nc_settled' = FALSE
  /\ nc_bounced' = FALSE
  /\ IF nc_level' = NC_end
       THEN nc_trues' = 0 /\ nc_falses' = 0
       ELSE UNCHANGED <<nc_trues, nc_falses>>
  /\ UNCHANGED <<nc_start, nc_threshold, nc_pc, nc_cnt>>
  /\ UNCHANGED ncOthers

\* A sample passes unread between two calls.  (Inside a call the samples
\* of the pin are the reads of the call, one per interval_ms.)
Pin_settle ==
  /\ nc_pc = "first"
  /\ nc_burst > 0 \/ ~nc_settled
  /\ NC_sample
  /\ UNCHANGED <<nc_start, nc_threshold, nc_level, nc_pc, nc_cnt, nc_trues,
                 nc_falses, nc_bounced>>
  /\ UNCHANGED ncOthers

\* The first read of a call: not at start, the call sleeps and returns
\* False, and the next call begins.
Repeated_isChangedStably_first ==
  /\ nc_pc = "first"
  /\ \E v \in PinLevels :
       /\ NC_read(v)
       /\ IF isChangedStably_rejects(v, nc_start)
            THEN /\ nc_pc' = "first"
                 /\ nc_falses' = IF nc_trues >= 1 THEN NC_count(nc_falses)
                                                  ELSE nc_falses
            ELSE nc_pc' = "wait" /\ UNCHANGED nc_falses
  /\ UNCHANGED <<nc_start, nc_threshold, nc_level, nc_cnt, nc_trues>>
  /\ UNCHANGED ncOthers

\* while pin.value() == start_signal: sleep; then countFiltering begins.
Repeated_isChangedStably_wait ==
  /\ nc_pc = "wait"
  /\ \E v \in PinLevels :
       /\ NC_read(v)
       /\ IF v = nc_start
            THEN UNCHANGED <<nc_pc, nc_cnt>>
            ELSE nc_pc' = "count" /\ nc_cnt' = 0
  /\ UNCHANGED <<nc_start, nc_threshold, nc_level, nc_trues, nc_falses>>
  /\ UNCHANGED ncOthers

\* One sample of countFiltering towards end_signal; when the counter leaves
\* the loop the call returns and the next call begins.
Repeated_countFiltering_sample ==
  /\ nc_pc = "count"
  /\ \E v \in PinLevels :
       /\ NC_read(v)
       /\ LET cnt == countFiltering_count(nc_cnt, v = NC_end) IN
          IF countFiltering_inLoop(cnt, nc_threshold)
            THEN nc_cnt' = cnt /\ UNCHANGED <<nc_pc, nc_trues, nc_falses>>
            ELSE /\ nc_pc' = "first" /\ nc_cnt' = 0
                 /\ IF countFiltering_verdict(cnt, nc_threshold)
                      THEN /\ nc_trues' = NC_count(nc_trues)
                           /\ UNCHANGED nc_falses
                      ELSE /\ nc_falses' = IF nc_trues >= 1
                                             THEN NC_count(nc_falses)
                                             ELSE nc_falses
                           /\ UNCHANGED nc_trues
  /\ UNCHANGED <<nc_start, nc_threshold, nc_level>>
  /\ UNCHANGED ncOthers

\* ------------------------------------------------- the queries of a button
ObsVariants == {"RealTimeButton", "CountFiltering", "InterruptDriven"}
ButtonStates == {"BOUNCING", "RELEASED", "PRESSED"}
Obs_answer(b) == IF b THEN "true" ELSE "false"

\* getState of CountFilteringImmediateDebounceButton after its reads.
CountFiltering_getState_result(cnt, threshold, released, pressed) ==
  IF cnt = threshold
    THEN (IF released = 1 THEN "RELEASED" ELSE "PRESSED")
    ELSE IF cnt = 0
      THEN (IF pressed = 0 THEN "PRESSED" ELSE "RELEASED")
      ELSE "BOUNCING"

\* RealTimeButton takes pressed_signal and released_signal as two
\* arguments and stores them as given; the buttons of Button.py take
\* released_signal and derive pressed_signal as the other level.
ObsInit ==
  /\ o_variant \in ObsVariants
  /\ o_released \in PinLevels
  /\ o_pressed \in IF o_variant = "RealTimeButton" THEN PinLevels
                                                    ELSE {1 - o_released}
  /\ o_threshold \in IF o_variant = "CountFiltering" THEN 1..ObsMaxThreshold
                                                      ELSE {1}
  /\ o_pin \in PinLevels
  /\ o_cached = "BOUNCING"
  /\ o_isPressed = "none" /\ o_isReleased = "none"
  /\ o_left = 0 /\ o_sum = 0 /\ o_state = "none"

ObsIdle ==
  /\ o_variant = "RealTimeButton" /\ o_released = 1 /\ o_pressed = 0
  /\ o_threshold = 1 /\ o_pin = 1 /\ o_cached = "BOUNCING"
  /\ o_isPressed = "none" /\ o_isReleased = "none"
  /\ o_left = 0 /\ o_sum = 0 /\ o_state = "none"

\* The pin changes level: the next query sees a new sample.
Obs_pinChange ==
  /\ o_pin' = 1 - o_pin
  /\ o_isPressed' = "none" /\ o_isReleased' = "none"
  /\ UNCHANGED <<o_variant, o_pressed, o_released, o_threshold, o_cached,
                 o_left, o_sum, o_state>>
  /\ UNCHANGED oOthers

\* The agent or the debounce callback of the interrupt-driven button
\* writes _current_state: the next query sees a new cached state.
Obs_stateChange ==
  /\ o_variant = "InterruptDriven"
  /\ o_cached' \in ButtonStates \ {o_cached}
  /\ o_isPressed' = "none" /\ o_isReleased' = "none"
  /\ UNCHANGED <<o_variant, o_pressed, o_released, o_threshold, o_pin,
                 o_left, o_sum, o_state>>
  /\ UNCHANGED oOthers

RealTimeButton_isPressed ==
  /\ o_variant = "RealTimeButton"
  /\ o_isPressed' = Obs_answer(o_pin = o_pressed)
  /\ UNCHANGED <<o_variant, o_pressed, o_released, o_threshold, o_pin,
                 o_cached, o_isReleased, o_left, o_sum, o_state>>
  /\ UNCHANGED oOthers

RealTimeButton_isReleased ==
  /\ o_variant = "RealTimeButton"
  /\ o_isReleased' = Obs_answer(o_pin = o_released)
  /\ UNCHANGED <<o_variant, o_pressed, o_released, o_threshold, o_pin,
                 o_cached, o_isPressed, o_left, o_sum, o_state>>
  /\ UNCHANGED oOthers

InterruptDriven_isPressed ==
  /\ o_variant = "InterruptDriven"
  /\ o_isPressed' = Obs_answer(o_cached = "PRESSED")
  /\ UNCHANGED <<o_variant, o_pressed, o_released, o_threshold, o_pin,
                 o_cached, o_isReleased, o_left, o_sum, o_state>>
  /\ UNCHANGED oOthers

InterruptDriven_isReleased ==
  /\ o_variant = "InterruptDriven"
  /\ o_isReleased' = Obs_answer(o_cached = "RELEASED")
  /\ UNCHANGED <<o_variant, o_pressed, o_released, o_threshold, o_pin,
                 o_cached, o_isPressed, o_left, o_sum, o_state>>
  /\ UNCHANGED oOthers

InterruptDriven_getState ==
  /\ o_variant = "InterruptDriven"
  /\ o_state' = o_cached
  /\ UNCHANGED <<o_variant, o_pressed, o_released, o_threshold, o_pin,
                 o_cached, o_isPressed, o_isReleased, o_left, o_sum>>
  /\ UNCHANGED oOthers

\* getState of the count-filtering button: cnt = 0, then threshold reads
\* of the pin added up, then the verdict.
CountFiltering_getState_begin ==
  /\ o_variant = "CountFiltering" /\ o_left = 0
  /\ o_left' = o_threshold /\ o_sum' = 0 /\ o_state' = "none"
  /\ UNCHANGED <<o_variant, o_pressed, o_released, o_threshold, o_pin,
                 o_cached, o_isPressed, o_isReleased>>
  /\ UNCHANGED oOthers

CountFiltering_getState_read ==
  /\ o_variant = "CountFiltering" /\ o_left > 0
  /\ o_left' = o_left - 1
  /\ o_sum' = o_sum + o_pin
  /\ o_state' = IF o_left' = 0
                  THEN CountFiltering_getState_result(o_sum', o_threshold,
                                                      o_released, o_pressed)
                  ELSE o_state
  /\ UNCHANGED <<o_variant, o_pressed, o_released, o_threshold, o_pin,
                 o_cached, o_isPressed, o_isReleased>>
  /\ UNCHANGED oOthers

\* ------------------------------------ InterruptDrivenStateDebounceButton
\* The waveforms: the press at `lead`, then the noise pulses, each
\* IrqGlitchWidth ms long and `gap` ms after the edge before it, then
\* possibly the release.
RECURSIVE Irq_pulses(_, _)
Irq_pulses(from, n) ==
  IF n = 0 THEN {<<>>}
  ELSE {<<>>} \cup
       UNION { { <<from + g, from + g + IrqGlitchWidth>> \o rest :
                   rest \in Irq_pulses(from + g + IrqGlitchWidth, n - 1) } :
               g \in IrqGaps }
Irq_held ==
  UNION { { <<lead>> \o w : w \in Irq_pulses(lead, IrqMaxGlitches) } :
            lead \in IrqLeads }
\* The button stays held, or is released some time after the last edge.
IrqWaveforms ==
  Irq_held \cup { w \o <<w[Len(w)] + r>> : w \in Irq_held, r \in IrqReleases }

\* The state of __init__: BOUNCING, the interrupt armed on both edges,
\* listener and timer constructed but not started, the flags clear.  The
\* two press listeners poll from time 0.
IrqInit ==
  /\ i_interval \in IrqIntervals
  /\ i_dperiod \in IrqDetectorPeriods
  /\ i_edges \in IrqWaveforms
  /\ i_next = 1 /\ i_now = 0 /\ i_pin = "released"
  /\ i_phase = "new"
  /\ i_armed = TRUE /\ i_irqFlag = FALSE
  /\ i_lhActive = FALSE /\ i_listenAt = -1
  /\ i_agent = "idle"
  /\ i_last = "BOUNCING" /\ i_current = "BOUNCING"
  /\ i_timer = "none" /\ i_timerAt = -1 /\ i_holdKind = "none"
  /\ i_toReleased = FALSE /\ i_toPressed = FALSE
  /\ i_pollAt = [k \in IrqDetectors |-> 0]
  /\ i_trues = [k \in IrqDetectors |-> 0]
  /\ i_lastEdge = -1 /\ i_quiet = "none"
  /\ i_stable = "none"
  /\ i_clearBy = [f \in {"toReleased", "toPressed"} |-> -1]

\* The same button constructed with a long interval.
IrqSlowWaveforms ==
  UNION { { <<lead>> \o w : w \in Irq_pulses(lead, IrqMaxGlitches) } :
            lead \in IrqSlowLeads }
IrqSlowInit ==
  /\ i_interval \in IrqSlowIntervals
  /\ i_dperiod \in IrqDetectorPeriods
  /\ i_edges \in IrqSlowWaveforms
  /\ i_next = 1 /\ i_now = 0 /\ i_pin = "released"
  /\ i_phase = "new"
  /\ i_armed = TRUE /\ i_irqFlag = FALSE
  /\ i_lhActive = FALSE /\ i_listenAt = -1
  /\ i_agent = "idle"
  /\ i_last = "BOUNCING" /\ i_current = "BOUNCING"
  /\ i_timer = "none" /\ i_timerAt = -1 /\ i_holdKind = "none"
  /\ i_toReleased = FALSE /\ i_toPressed = FALSE
  /\ i_pollAt = [k \in IrqDetectors |-> 0]
  /\ i_trues = [k \in IrqDetectors |-> 0]
  /\ i_lastEdge = -1 /\ i_quiet = "none"
  /\ i_stable = "none"
  /\ i_clearBy = [f \in {"toReleased", "toPressed"} |-> -1]

IrqIdle ==
  /\ i_interval = 32 /\ i_dperiod = 100 /\ i_edges = <<15>>
  /\ i_next = 1 /\ i_now = 0 /\ i_pin = "released"
  /\ i_phase = "new"
  /\ i_armed = TRUE /\ i_irqFlag = FALSE
  /\ i_lhActive = FALSE /\ i_listenAt = -1
  /\ i_agent = "idle"
  /\ i_last = "BOUNCING" /\ i_current = "BOUNCING"
  /\ i_timer = "none" /\ i_timerAt = -1 /\ i_holdKind = "none"
  /\ i_toReleased = FALSE /\ i_toPressed = FALSE
  /\ i_pollAt = [k \in IrqDetectors |-> 0]
  /\ i_trues = [k \in IrqDetectors |-> 0]
  /\ i_lastEdge = -1 /\ i_quiet = "none"
  /\ i_stable = "none"
  /\ i_clearBy = [f \in {"toReleased", "toPressed"} |-> -1]

\* activate(): the debounce timer starts its one interval, then the
\* listener of the interrupt flag starts to poll.
InterruptDriven_activate ==
  /\ i_phase = "new"
  /\ i_phase' = "active"
  /\ i_timer' = "sleep" /\ i_timerAt' = i_now + i_interval
  /\ i_lhActive' = TRUE /\ i_listenAt' = i_now
  /\ UNCHANGED <<iParams, i_next, i_now, i_pin, i_armed, i_irqFlag, i_agent,
                 i_last, i_current, i_holdKind, i_toReleased, i_toPressed,
                 i_pollAt, i_trues, i_lastEdge, i_quiet>>
  /\ UNCHANGED <<i_stable, i_clearBy>>
  /\ UNCHANGED iOthers

\* deactivate(): AsyncTimer.deactivate cancels the timer task, with the
\* callback it may be running; the listener loop is told to end.  The
\* handler of the pin interrupt is left as it is.
InterruptDriven_deactivate ==
  /\ i_phase = "active"
  /\ i_phase' = "deactivated"
  /\ i_timer' = "none" /\ i_timerAt' = -1 /\ i_holdKind' = "none"
  /\ i_lhActive' = FALSE
  /\ UNCHANGED <<iParams, i_next, i_now, i_pin, i_armed, i_irqFlag,
                 i_listenAt, i_agent, i_last, i_current, i_toReleased,
                 i_toPressed, i_pollAt, i_trues, i_lastEdge, i_quiet>>
  /\ UNCHANGED <<i_stable, i_clearBy>>
  /\ UNCHANGED iOthers

\* An edge on the pin; the armed interrupt runs _irq_handler, which sets
\* the flag.
InterruptDriven_irq_handler ==
  /\ i_phase # "new"
  /\ i_next <= Len(i_edges) /\ i_edges[i_next] = i_now
  /\ i_next' = i_next + 1
  /\ i_pin' = IF i_pin = "released" THEN "pressed" ELSE "released"
  /\ IF i_armed
       THEN i_irqFlag' = TRUE /\ i_lastEdge' = i_now
       ELSE UNCHANGED <<i_irqFlag, i_lastEdge>>
  /\ UNCHANGED <<iParams, i_now, i_phase, i_armed, i_lhActive, i_listenAt,
                 i_agent, i_last, i_current, i_timer, i_timerAt, i_holdKind,
                 i_toReleased, i_toPressed, i_pollAt, i_trues, i_quiet>>
  /\ UNCHANGED <<i_stable, i_clearBy>>
  /\ UNCHANGED iOthers

\* One pass of SyncListenerAsyncHandler.listen over BooleanFlagListener:
\* an inactive loop ends, an active one spawns the agent if the flag is
\* set and sleeps period_ms.
IrqListenerHandler_listen ==
  /\ i_listenAt = i_now
  /\ IF ~i_lhActive
       THEN i_listenAt' = -1 /\ UNCHANGED i_agent
       ELSE /\ i_listenAt' = i_now + ListenerHandler_period_ms
            /\ i_agent' = IF i_irqFlag THEN "spawned" ELSE i_agent
  /\ UNCHANGED <<iParams, i_next, i_now, i_pin, i_phase, i_armed, i_irqFlag,
                 i_lhActive, i_last, i_current, i_timer, i_timerAt,
                 i_holdKind, i_toReleased, i_toPressed, i_pollAt, i_trues,
                 i_lastEdge, i_quiet>>
  /\ UNCHANGED <<i_stable, i_clearBy>>
  /\ UNCHANGED iOthers

\* _irq_agentHandler up to the return of reactivate(): the states are
\* shifted and the timer task, sleeping or inside its callback, is
\* replaced by a new one.
InterruptDriven_irq_agentHandler_restart ==
  /\ i_agent = "spawned"
  /\ i_agent' = "restarted"
  /\ i_last' = i_current /\ i_current' = "BOUNCING"
  /\ i_timer' = "sleep" /\ i_timerAt' = i_now + i_interval
  /\ i_holdKind' = "none"
  /\ UNCHANGED <<iParams, i_next, i_now, i_pin, i_phase, i_armed, i_irqFlag,
                 i_lhActive, i_listenAt, i_toReleased, i_toPressed, i_pollAt,
                 i_trues, i_lastEdge, i_quiet>>
  /\ UNCHANGED <<i_stable, i_clearBy>>
  /\ UNCHANGED iOthers

\* The last statement of _irq_agentHandler: the interrupt flag is cleared.
InterruptDriven_irq_agentHandler_clear ==
  /\ i_agent = "restarted"
  /\ i_agent' = "idle"
  /\ i_irqFlag' = FALSE
  /\ UNCHANGED <<iParams, i_next, i_now, i_pin, i_phase, i_armed, i_lhActive,
                 i_listenAt, i_last, i_current, i_timer, i_timerAt,
                 i_holdKind, i_toReleased, i_toPressed, i_pollAt, i_trues,
                 i_lastEdge, i_quiet>>
  /\ UNCHANGED <<i_stable, i_clearBy>>
  /\ UNCHANGED iOthers

\* A callback that samples the pin and commits nothing.
InterruptDriven_committed_kept(pin, current) == current

\* The state _debounce_handler commits for a pin level.
InterruptDriven_committed(pin, current) ==
  IF pin = "released" THEN "RELEASED" ELSE "PRESSED"

\* The timer expires: _debounce_handler samples the pin and commits the
\* state; if the state is new against _last_state it raises the flag of
\* the transition and sleeps twice the interval, else it returns and the
\* one-shot timer task ends.
InterruptDriven_debounce_handler ==
  /\ i_timer = "sleep" /\ i_timerAt = i_now
  /\ i_current' = InterruptDriven_committed(i_pin, i_current)
  /\ i_quiet' = IF i_lastEdge = -1 \/ i_now - i_lastEdge >= i_interval
                  THEN "quiet" ELSE "noisy"
  /\ IF i_current' = "RELEASED" /\ i_last # "RELEASED"
       THEN /\ i_toReleased' = TRUE /\ UNCHANGED i_toPressed
            /\ i_timer' = "hold" /\ i_holdKind' = "toReleased"
            /\ i_timerAt' = i_now + 2 * i_interval
       ELSE IF i_current' = "PRESSED" /\ i_last # "PRESSED"
         THEN /\ i_toPressed' = TRUE /\ UNCHANGED i_toReleased
              /\ i_timer' = "hold" /\ i_holdKind' = "toPressed"
              /\ i_timerAt' = i_now + 2 * i_interval
         ELSE /\ i_timer' = "none" /\ i_timerAt' = -1
              /\ UNCHANGED <<i_holdKind, i_toReleased, i_toPressed>>
  /\ UNCHANGED <<iParams, i_next, i_now, i_pin, i_phase, i_armed, i_irqFlag,
                 i_lhActive, i_listenAt, i_agent, i_last, i_pollAt, i_trues,
                 i_lastEdge>>
  /\ i_stable' = i_current'
  /\ i_clearBy' = [f \in DOMAIN i_clearBy |->
                     IF f = i_holdKind' /\ i_timer' = "hold"
                       THEN i_now + 2 * i_interval ELSE i_clearBy[f]]
  /\ UNCHANGED iOthers

\* The sleep of _debounce_handler ends: the flag it raised is cleared and
\* the timer task ends.
InterruptDriven_debounce_handler_clear ==
  /\ i_timer = "hold" /\ i_timerAt = i_now
  /\ i_toReleased' = IF i_holdKind = "toReleased" THEN FALSE ELSE i_toReleased
  /\ i_toPressed' = IF i_holdKind = "toPressed" THEN FALSE ELSE i_toPressed
  /\ i_timer' = "none" /\ i_timerAt' = -1 /\ i_holdKind' = "none"
  /\ UNCHANGED <<iParams, i_next, i_now, i_pin, i_phase, i_armed, i_irqFlag,
                 i_lhActive, i_listenAt, i_agent, i_last, i_current,
                 i_pollAt, i_trues, i_lastEdge, i_quiet>>
  /\ i_clearBy' = [i_clearBy EXCEPT ![i_holdKind] = -1]
  /\ UNCHANGED i_stable
  /\ UNCHANGED iOthers

\* What isToPressed leaves of the flag it found set.
InterruptDriven_isToPressed_flagAfter(flag) == FALSE

Irq_countTrue(n) == IF n < IrqMaxTrues THEN n + 1 ELSE n

\* One pass of the listen loop of press listener k: OnPressedListener
\* calls isToPressed, which returns True and clears the flag if it is set;
\* then the loop sleeps its period.
OnPressedListener_listen(k) ==
  /\ i_pollAt[k] = i_now
  /\ i_pollAt' = [i_pollAt EXCEPT ![k] = i_now + i_dperiod]
  /\ IF i_toPressed
       THEN /\ i_toPressed' = InterruptDriven_isToPressed_flagAfter(i_toPressed)
            /\ i_trues' = [i_trues EXCEPT ![k] = Irq_countTrue(@)]
       ELSE UNCHANGED <<i_toPressed, i_trues>>
  /\ UNCHANGED <<iParams, i_next, i_now, i_pin, i_phase, i_armed, i_irqFlag,
                 i_lhActive, i_listenAt, i_agent, i_last, i_current, i_timer,
                 i_timerAt, i_holdKind, i_toReleased, i_lastEdge, i_quiet>>
  /\ i_clearBy' = IF i_toPressed /\ ~i_toPressed'
                    THEN [i_clearBy EXCEPT !["toPressed"] = -1] ELSE i_clearBy
  /\ UNCHANGED i_stable
  /\ UNCHANGED iOthers

\* The times at which something is due: the polls, the timer, the next
\* edge.
Irq_due ==
  { t \in {i_listenAt, i_timerAt} : t >= 0 }
    \cup { i_pollAt[k] : k \in IrqDetectors }
    \cup { i_edges[n] : n \in { m \in DOMAIN i_edges : m = i_next } }

\* Nothing is due now and no task is runnable: the clock moves to the
\* next due time.
Irq_tick ==
  /\ i_phase # "new" /\ i_agent = "idle"
  /\ i_now \notin Irq_due
  /\ \E t \in Irq_due :
       /\ \A u \in Irq_due : t <= u
       /\ t <= IrqMaxTime
       /\ i_now' = t
  /\ UNCHANGED <<iParams, i_next, i_pin, i_phase, iButton, i_pollAt, i_trues,
                 i_lastEdge, i_quiet>>
  /\ UNCHANGED <<i_stable, i_clearBy>>
  /\ UNCHANGED iOthers

\* -------------------------- start and stop of a binding, in any order
\* An EventHandler binding, whose loop calls the handler itself
\* (monitor_sync in a thread, monitor_async in a task), and a
\* ListenerHandler binding over an AsyncListener, whose loop spawns every
\* handler invocation as a thread or task of its own.  start and stop are
\* called in any order and any number of times; the event is a level that
\* the poll reads.
LoopBindings == {"eventHandler", "listener"}
LoopPositions == {"test", "poll", "handle", "sleep"}

\* The poll loops of binding b that have been spawned and have not
\* returned, and its handler invocations in flight.
Loops_running(b) ==
  h_loop[b]["test"] + h_loop[b]["poll"] + h_loop[b]["handle"] + h_loop[b]["sleep"]
Loops_inFlight(b) ==
  IF b = "listener" THEN h_handler ELSE h_loop[b]["handle"]

\* One loop of binding b moves from position p to position q, or returns
\* (q = "none"), or is spawned (p = "none").
Loops_move(b, p, q) ==
  [h_loop EXCEPT ![b] =
     [x \in LoopPositions |->
        IF x = p /\ x = q THEN @[x]
        ELSE IF x = p THEN @[x] - 1
        ELSE IF x = q THEN @[x] + 1
        ELSE @[x]]]

\* What stop() and deactivate() do to the handler invocations in flight:
\* the methods assign the flag and nothing else.
Dispatcher_stop_inFlight_cancelled(n) == 0
Dispatcher_stop_inFlight(n) == n

\* The handler invocations in flight that listen() waits for before its
\* next poll: the handler is spawned, never awaited.
ListenerHandler_listen_awaited_all(n) == n
ListenerHandler_listen_awaited(n) == 0

LoopsInit ==
  /\ h_flag \in BOOLEAN
  /\ h_enabled = [b \in LoopBindings |-> b = "eventHandler"]
  /\ h_loop = [b \in LoopBindings |-> [p \in LoopPositions |-> 0]]
  /\ h_handler = 0
  /\ h_caught = [b \in LoopBindings |-> 0]
  /\ h_outlived = [b \in LoopBindings |-> FALSE]

LoopsIdle ==
  /\ h_flag = FALSE
  /\ h_enabled = [b \in LoopBindings |-> b = "eventHandler"]
  /\ h_loop = [b \in LoopBindings |-> [p \in LoopPositions |-> 0]]
  /\ h_handler = 0
  /\ h_caught = [b \in LoopBindings |-> 0]
  /\ h_outlived = [b \in LoopBindings |-> FALSE]

\* The event becomes true or false.
Loops_eventChange ==
  /\ h_flag' = ~h_flag
  /\ UNCHANGED <<h_enabled, h_loop, h_handler, h_caught, h_outlived>>
  /\ UNCHANGED hOthers

\* start_sync / start_async: `self.enabled = True`, then a new thread or
\* task runs the loop, whatever loops there are already.
EventHandler_start_any ==
  /\ Loops_running("eventHandler") < MaxLoops
  /\ h_enabled' = [h_enabled EXCEPT !["eventHandler"] = TRUE]
  /\ h_loop' = Loops_move("eventHandler", "none", "test")
  /\ UNCHANGED <<h_flag, h_handler, h_caught, h_outlived>>
  /\ UNCHANGED hOthers

\* activate(): `self.active = True`, then create_task(self.listen()).
ListenerHandler_activate_any ==
  /\ Loops_running("listener") < MaxLoops
  /\ h_enabled' = [h_enabled EXCEPT !["listener"] = TRUE]
  /\ h_loop' = Loops_move("listener", "none", "test")
  /\ UNCHANGED <<h_flag, h_handler, h_caught, h_outlived>>
  /\ UNCHANGED hOthers

\* stop(): `self.enabled = False`.
EventHandler_stop_any ==
  /\ h_enabled' = [h_enabled EXCEPT !["eventHandler"] = FALSE]
  /\ h_loop' = [h_loop EXCEPT !["eventHandler"]["handle"] =
                  Dispatcher_stop_inFlight(@)]
  /\ h_caught' = [h_caught EXCEPT !["eventHandler"] =
                    Loops_inFlight("eventHandler")]
  /\ UNCHANGED <<h_flag, h_handler, h_outlived>>
  /\ UNCHANGED hOthers

\* deactivate(): `self.active = False`.
ListenerHandler_deactivate_any ==
  /\ h_enabled' = [h_enabled EXCEPT !["listener"] = FALSE]
  /\ h_handler' = Dispatcher_stop_inFlight(h_handler)
  /\ h_caught' = [h_caught EXCEPT !["listener"] = Loops_inFlight("listener")]
  /\ UNCHANGED <<h_flag, h_loop, h_outlived>>
  /\ UNCHANGED hOthers

\* `while self.enabled:` / `while self.active:` in one loop of binding b.
Loops_test(b) ==
  /\ h_loop[b]["test"] > 0
  /\ h_loop' = Loops_move(b, "test", IF h_enabled[b] THEN "poll" ELSE "none")
  /\ UNCHANGED <<h_flag, h_enabled, h_handler, h_caught, h_outlived>>
  /\ UNCHANGED hOthers

\* `if self.event.monitor_sync():` / `if await self.event.monitor_async():`
\* a True poll enters the handler in the loop itself.
EventHandler_monitor_poll ==
  /\ h_loop["eventHandler"]["poll"] > 0
  /\ h_loop' = Loops_move("eventHandler", "poll",
                          IF h_flag THEN "handle" ELSE "test")
  /\ UNCHANGED <<h_flag, h_enabled, h_handler, h_caught, h_outlived>>
  /\ UNCHANGED hOthers

\* A handler invocation of binding b returns; it is one of those that
\* were in flight at the last stop call, or one of the others.
Loops_returned(b) ==
  /\ \E caught \in BOOLEAN :
       /\ caught => h_caught[b] > 0
       /\ ~caught => Loops_inFlight(b) > h_caught[b]
       /\ h_caught' = [h_caught EXCEPT ![b] = IF caught THEN @ - 1 ELSE @]
       /\ h_outlived' = [h_outlived EXCEPT ![b] = @ \/ caught]

\* handle_sync() / handle_async() returns to the loop.
EventHandler_handle_return ==
  /\ h_loop["eventHandler"]["handle"] > 0
  /\ h_loop' = Loops_move("eventHandler", "handle", "test")
  /\ Loops_returned("eventHandler")
  /\ UNCHANGED <<h_flag, h_enabled, h_handler>>
  /\ UNCHANGED hOthers

\* `if await self.listener.listen():` a True poll spawns the handler with
\* start_new_thread or create_task, and the loop goes on to its sleep.
ListenerHandler_listen_poll_any ==
  /\ h_loop["listener"]["poll"] > 0
  /\ h_flag => h_handler < MaxHandlers
  /\ h_loop' = Loops_move("listener", "poll", "sleep")
  /\ h_handler' = IF h_flag THEN h_handler + 1 ELSE h_handler
  /\ UNCHANGED <<h_flag, h_enabled, h_caught, h_outlived>>
  /\ UNCHANGED hOthers

\* `await Sleep.async_ms(self.period_ms)`, back to the loop test.
ListenerHandler_listen_sleep_any ==
  /\ h_loop["listener"]["sleep"] > 0
  /\ ListenerHandler_listen_awaited(h_handler) = 0
  /\ h_loop' = Loops_move("listener", "sleep", "test")
  /\ UNCHANGED <<h_flag, h_enabled, h_handler, h_caught, h_outlived>>
  /\ UNCHANGED hOthers

\* A spawned handler invocation returns in its own thread or task.
Handler_handle_return ==
  /\ h_handler > 0
  /\ h_handler' = h_handler - 1
  /\ Loops_returned("listener")
  /\ UNCHANGED <<h_flag, h_enabled, h_loop>>
  /\ UNCHANGED hOthers

\* ------------------ the debounce timer task and _debounce_handler
\* AsyncTimer (one shot) as InterruptDrivenStateDebounceButton uses it,
\* without clock: the task of the timer, the callback it awaits, and the
\* agent that restarts it for an edge.  The pin sample of an expiry
\* matches released_signal, pressed_signal or neither.
\*
\* reactivate() inside the callback cancels the task that is running the
\* callback.  Task.cancel() of the running task raises RuntimeError in
\* MicroPython's asyncio and requests a CancelledError at the next
\* suspension in CPython's; the build decides which.
AsyncioRuntimes == {"micropython", "cpython"}
PinSamples == {"released", "pressed", "neither"}

\* The timer has a task that will sleep the interval and sample the pin.
AsyncTimer_armed ==
  t_task = "sleep" \/ (t_task = "start" /\ t_active)

\* The else branch of _debounce_handler, reactivate() on the timer whose
\* task runs the callback, to the end of that task: the value of
\* <<active, task, warning logged>> afterwards.  In MicroPython cancel()
\* raises after deactivate() has cleared `active`, and the exception ends
\* the callback and the task.  In CPython a new task is created, the
\* warning is logged, and _run_timer goes on to its last statement,
\* `self.active = False`, before the new task has run.
AsyncTimer_reactivate_inCallback(runtime) ==
  IF runtime = "micropython"
    THEN <<FALSE, "failed", FALSE>>
    ELSE <<FALSE, "start", TRUE>>

TimerInit ==
  /\ t_runtime \in AsyncioRuntimes
  /\ t_phase = "new"
  /\ t_active = FALSE /\ t_task = "none"
  /\ t_last = "BOUNCING" /\ t_current = "BOUNCING"
  /\ t_toReleased = FALSE /\ t_toPressed = FALSE /\ t_holdKind = "none"
  /\ t_sample = "none" /\ t_warned = FALSE

TimerIdle ==
  /\ t_runtime = "micropython"
  /\ t_phase = "new"
  /\ t_active = FALSE /\ t_task = "none"
  /\ t_last = "BOUNCING" /\ t_current = "BOUNCING"
  /\ t_toReleased = FALSE /\ t_toPressed = FALSE /\ t_holdKind = "none"
  /\ t_sample = "none" /\ t_warned = FALSE

\* activate() of the button: AsyncTimer.activate sets `active` and
\* creates the task.
Timer_InterruptDriven_activate ==
  /\ t_phase = "new"
  /\ t_phase' = "active"
  /\ t_active' = TRUE /\ t_task' = "start"
  /\ UNCHANGED <<t_runtime, t_last, t_current, t_toReleased, t_toPressed,
                 t_holdKind, t_sample, t_warned>>
  /\ UNCHANGED tOthers

\* deactivate() of the button: AsyncTimer.deactivate clears `active`,
\* cancels the task and forgets it.
Timer_InterruptDriven_deactivate ==
  /\ t_phase = "active"
  /\ t_phase' = "deactivated"
  /\ t_active' = FALSE /\ t_task' = "none" /\ t_holdKind' = "none"
  /\ UNCHANGED <<t_runtime, t_last, t_current, t_toReleased, t_toPressed,
                 t_sample, t_warned>>
  /\ UNCHANGED tOthers

\* The first run of a task: `while self.active:` of _run_timer, then the
\* sleep; a task that finds `active` cleared ends at once.
AsyncTimer_run_timer ==
  /\ t_task = "start"
  /\ t_task' = IF t_active THEN "sleep" ELSE "done"
  /\ UNCHANGED <<t_runtime, t_phase, t_active, t_last, t_current, t_toReleased,
                 t_toPressed, t_holdKind, t_sample, t_warned>>
  /\ UNCHANGED tOthers

\* _irq_agentHandler for an edge: the states are shifted and reactivate()
\* replaces the task of the timer (a task that has been created and has
\* not run yet is kept).
Timer_InterruptDriven_irq_agentHandler ==
  /\ t_phase = "active"
  /\ t_last' = t_current /\ t_current' = "BOUNCING"
  /\ t_active' = TRUE /\ t_task' = "start"
  /\ t_holdKind' = "none"
  /\ t_sample' = "none" /\ t_warned' = FALSE
  /\ UNCHANGED <<t_runtime, t_phase, t_toReleased, t_toPressed>>
  /\ UNCHANGED tOthers

\* The sleep of the timer ends and _debounce_handler runs up to its next
\* suspension or its return: a matching sample is committed and, if the
\* state is new against _last_state, its flag is raised and held; a
\* sample that matches neither signal goes through reactivate().
Timer_InterruptDriven_debounce_handler ==
  /\ t_task = "sleep"
  /\ \E sample \in PinSamples :
       /\ t_sample' = sample
       /\ IF sample = "neither"
            THEN LET after == AsyncTimer_reactivate_inCallback(t_runtime)
                 IN /\ t_active' = after[1]
                    /\ t_task' = after[2]
                    /\ t_warned' = after[3]
                    /\ UNCHANGED <<t_current, t_toReleased, t_toPressed,
                                   t_holdKind>>
            ELSE /\ t_current' = IF sample = "released" THEN "RELEASED"
                                                         ELSE "PRESSED"
                 /\ t_warned' = FALSE
                 /\ IF t_current' = "RELEASED" /\ t_last # "RELEASED"
                      THEN /\ t_toReleased' = TRUE /\ UNCHANGED t_toPressed
                           /\ t_task' = "hold" /\ t_holdKind' = "toReleased"
                           /\ UNCHANGED t_active
                      ELSE IF t_current' = "PRESSED" /\ t_last # "PRESSED"
                        THEN /\ t_toPressed' = TRUE /\ UNCHANGED t_toReleased
                             /\ t_task' = "hold" /\ t_holdKind' = "toPressed"
                             /\ UNCHANGED t_active
                        ELSE /\ t_task' = "done" /\ t_active' = FALSE
                             /\ UNCHANGED <<t_toReleased, t_toPressed,
                                            t_holdKind>>
  /\ UNCHANGED <<t_runtime, t_phase, t_last>>
  /\ UNCHANGED tOthers

\* The hold of the callback ends: the flag is cleared, the callback
\* returns and the one-shot task ends with `self.active = False`.
Timer_InterruptDriven_debounce_handler_clear ==
  /\ t_task = "hold"
  /\ t_toReleased' = IF t_holdKind = "toReleased" THEN FALSE ELSE t_toReleased
  /\ t_toPressed' = IF t_holdKind = "toPressed" THEN FALSE ELSE t_toPressed
  /\ t_task' = "done" /\ t_active' = FALSE /\ t_holdKind' = "none"
  /\ UNCHANGED <<t_runtime, t_phase, t_last, t_current, t_sample, t_warned>>
  /\ UNCHANGED tOthers

\* ---------------------------------------- isChanged and isChangedStably
\* The number of iterations of  for _ in range(threshold).
isChanged_budget_plusOne(threshold) ==
  IF threshold > 0 THEN threshold + 1 ELSE 1
isChanged_budget(threshold) == IF threshold > 0 THEN threshold ELSE 0

\* The signal isChangedStably hands to countFiltering as its target.
isChangedStably_target_start(start, end) == start
isChangedStably_target(start, end) == end

FiltersInit ==
  /\ f_fn \in {"isChanged", "isChangedStably"}
  /\ f_start \in PinLevels
  /\ f_end \in PinLevels
  /\ f_threshold \in 0..FiltersMaxThreshold
  /\ f_pc = "first"
  /\ f_i = 0
  /\ f_cnt = 0
  /\ f_result = FALSE
  /\ f_seq = <<>>
  /\ f_sleeps = 0
  /\ f_left = 0

\* The state of the group while another specification runs.
FiltersIdle ==
  /\ f_fn = "isChanged"
  /\ f_start = 1
  /\ f_end = 0
  /\ f_threshold = 1
  /\ f_pc = "idle"
  /\ f_i = 0
  /\ f_cnt = 0
  /\ f_result = FALSE
  /\ f_seq = <<>>
  /\ f_sleeps = 0
  /\ f_left = 0

\* The return of a call.
DigitalFilters_return(result) == f_pc' = "done" /\ f_result' = result

\* isChanged:  if pin.value() != start_signal: return False.  A for loop
\* over an empty range falls through to  return False.
DigitalFilters_isChanged_first ==
  /\ f_fn = "isChanged" /\ f_pc = "first"
  /\ \E v \in PinLevels :
       /\ f_seq' = Append(f_seq, v)
       /\ IF v # f_start \/ isChanged_budget(f_threshold) = 0
            THEN DigitalFilters_return(FALSE)
            ELSE f_pc' = "for" /\ f_result' = f_result
  /\ UNCHANGED <<f_fn, f_start, f_end, f_threshold, f_i, f_cnt, f_sleeps,
                 f_left>>
  /\ UNCHANGED fOthers

\* isChanged, one iteration of the for loop: return True if the pin reads
\* end_signal, else wait; after the last iteration  return False.
DigitalFilters_isChanged_for ==
  /\ f_fn = "isChanged" /\ f_pc = "for"
  /\ f_i < isChanged_budget(f_threshold)
  /\ \E v \in PinLevels :
       /\ f_seq' = Append(f_seq, v)
       /\ IF v = f_end
            THEN /\ DigitalFilters_return(TRUE)
                 /\ UNCHANGED <<f_i, f_sleeps>>
            ELSE /\ f_sleeps' = f_sleeps + 1
                 /\ f_i' = f_i + 1
                 /\ IF f_i + 1 >= isChanged_budget(f_threshold)
                      THEN DigitalFilters_return(FALSE)
                      ELSE UNCHANGED <<f_pc, f_result>>
  /\ UNCHANGED <<f_fn, f_start, f_end, f_threshold, f_cnt, f_left>>
  /\ UNCHANGED fOthers

\* isChangedStably:  if pin.value() != start_signal: wait; return False.
DigitalFilters_isChangedStably_first ==
  /\ f_fn = "isChangedStably" /\ f_pc = "first"
  /\ \E v \in PinLevels :
       /\ f_seq' = Append(f_seq, v)
       /\ IF v # f_start
            THEN /\ f_sleeps' = f_sleeps + 1
                 /\ DigitalFilters_return(FALSE)
            ELSE /\ f_pc' = "while"
                 /\ UNCHANGED <<f_sleeps, f_result>>
  /\ UNCHANGED <<f_fn, f_start, f_end, f_threshold, f_i, f_cnt, f_left>>
  /\ UNCHANGED fOthers

\* isChangedStably:  while pin.value() == start_signal: wait;  the read
\* that differs enters countFiltering(pin, end_signal, ...) with cnt = 0.
DigitalFilters_isChangedStably_while ==
  /\ f_fn = "isChangedStably" /\ f_pc = "while"
  /\ Len(f_seq) < FiltersMaxReads
  /\ \E v \in PinLevels :
       /\ f_seq' = Append(f_seq, v)
       /\ IF v = f_start
            THEN /\ f_sleeps' = f_sleeps + 1
                 /\ UNCHANGED <<f_pc, f_cnt, f_left>>
            ELSE /\ f_pc' = "countFiltering"
                 /\ f_cnt' = 0
                 /\ f_left' = Len(f_seq')
                 /\ UNCHANGED f_sleeps
  /\ UNCHANGED <<f_fn, f_start, f_end, f_threshold, f_i, f_result>>
  /\ UNCHANGED fOthers

\* countFiltering, one iteration of its while loop.
DigitalFilters_countFiltering_sample ==
  /\ f_pc = "countFiltering"
  /\ countFiltering_inLoop(f_cnt, f_threshold)
  /\ Len(f_seq) < FiltersMaxReads
  /\ \E v \in PinLevels :
       /\ f_seq' = Append(f_seq, v)
       /\ f_cnt' = countFiltering_count(f_cnt,
                     v = isChangedStably_target(f_start, f_end))
  /\ f_sleeps' = f_sleeps + 1
  /\ UNCHANGED <<f_fn, f_start, f_end, f_threshold, f_pc, f_i, f_result,
                 f_left>>
  /\ UNCHANGED fOthers

\* countFiltering returns and isChangedStably returns its verdict.
DigitalFilters_countFiltering_return ==
  /\ f_pc = "countFiltering"
  /\ ~countFiltering_inLoop(f_cnt, f_threshold)
  /\ DigitalFilters_return(countFiltering_verdict(f_cnt, f_threshold))
  /\ UNCHANGED <<f_fn, f_start, f_end, f_threshold, f_i, f_cnt, f_seq,
                 f_sleeps, f_left>>
  /\ UNCHANGED fOthers

\* ------------------------------------------------- StateDebounceButton
\* getState: the state a pin level maps to.
StateDebounceButton_state(pin) ==
  IF pin = "released" THEN "RELEASED" ELSE "PRESSED"

\* The state isToPressed / isToReleased require before their sleep and the
\* one they test after it.
StateDebounceButton_from(fn) ==
  IF fn = "isToPressed" THEN "RELEASED" ELSE "PRESSED"
StateDebounceButton_to(fn) ==
  IF fn = "isToPressed" THEN "PRESSED" ELSE "RELEASED"

\* An entry that samples the pin whatever the cached state is.
StateDebounceButton_entryState_always(last, sampled) == sampled
\* if self._last_state == BOUNCING: self._last_state = await self.getState()
StateDebounceButton_entryState(last, sampled) ==
  IF last = "BOUNCING" THEN sampled ELSE last

StateInit ==
  /\ s_mode \in {"any", "pressOnly"}
  /\ s_pin = "released"
  /\ s_last = "BOUNCING"
  /\ s_pc = "idle"
  /\ s_fn = "none"
  /\ s_entry = "none"
  /\ s_entrySample = "none"
  /\ s_sample = "none"
  /\ s_result = "none"
  /\ s_presses = 0
  /\ s_polls = 0
  /\ s_reported = 0

\* The state of the group while another specification runs.
StateIdle ==
  /\ s_mode = "none"
  /\ s_pin = "released"
  /\ s_last = "BOUNCING"
  /\ s_pc = "idle"
  /\ s_fn = "none"
  /\ s_entry = "none"
  /\ s_entrySample = "none"
  /\ s_sample = "none"
  /\ s_result = "none"
  /\ s_presses = 0
  /\ s_polls = 0
  /\ s_reported = 0

\* The button is pressed or released.  Polled through isToPressed alone,
\* each level is held until HoldPolls calls have returned.
State_pinChange ==
  /\ s_mode \in {"any", "pressOnly"}
  /\ s_mode = "pressOnly" => s_polls >= HoldPolls
  /\ s_pin = "released" => s_presses < MaxPresses
  /\ s_pin' = IF s_pin = "released" THEN "pressed" ELSE "released"
  /\ s_presses' = IF s_pin = "released" THEN s_presses + 1 ELSE s_presses
  /\ s_polls' = 0
  /\ UNCHANGED <<s_mode, s_last, s_pc, s_fn, s_entry, s_entrySample,
                 s_sample, s_result, s_reported>>
  /\ UNCHANGED sOthers

\* getState, and isReleased / isPressed which call it, from another task.
StateDebounceButton_getState ==
  /\ s_mode = "any"
  /\ s_last' = StateDebounceButton_state(s_pin)
  /\ UNCHANGED <<s_mode, s_pin, s_pc, s_fn, s_entry, s_entrySample,
                 s_sample, s_result, s_presses, s_polls, s_reported>>
  /\ UNCHANGED sOthers

\* isToPressed / isToReleased up to the sleep: refresh a BOUNCING cache,
\* then sleep if the cache is the state the transition starts from, else
\* return False.
StateDebounceButton_isTo_begin(fn) ==
  /\ s_mode \in {"any", "pressOnly"}
  /\ s_mode = "pressOnly" => fn = "isToPressed"
  /\ s_pc = "idle"
  /\ s_fn' = fn
  /\ s_entry' = s_last
  /\ s_entrySample' = IF s_last = "BOUNCING"
                        THEN StateDebounceButton_state(s_pin) ELSE "none"
  /\ s_last' = StateDebounceButton_entryState(s_last,
                                      StateDebounceButton_state(s_pin))
  /\ s_sample' = "none"
  /\ IF s_last' = StateDebounceButton_from(fn)
       THEN /\ s_pc' = "sleep"
            /\ s_result' = "none"
            /\ UNCHANGED s_polls
       ELSE /\ s_pc' = "idle"
            /\ s_result' = "false"
            /\ s_polls' = IF fn = "isToPressed" /\ s_polls < HoldPolls
                            THEN s_polls + 1 ELSE s_polls
  /\ UNCHANGED <<s_mode, s_pin, s_presses, s_reported>>
  /\ UNCHANGED sOthers

\* After the sleep: isPressed() / isReleased() samples the pin through
\* getState, which caches the sample, and the call returns the comparison.
StateDebounceButton_isTo_sample ==
  /\ s_pc = "sleep"
  /\ s_sample' = StateDebounceButton_state(s_pin)
  /\ s_last' = s_sample'
  /\ s_result' = IF s_sample' = StateDebounceButton_to(s_fn)
                   THEN "true" ELSE "false"
  /\ s_pc' = "idle"
  /\ s_reported' = IF s_fn = "isToPressed" /\ s_result' = "true"
                     THEN s_reported + 1 ELSE s_reported
  /\ s_polls' = IF s_fn = "isToPressed" /\ s_polls < HoldPolls
                  THEN s_polls + 1 ELSE s_polls
  /\ UNCHANGED <<s_mode, s_pin, s_fn, s_entry, s_entrySample, s_presses>>
  /\ UNCHANGED sOthers

\* ------------------------------------------------------------ AsyncTimer
AsyncTimerTasks == 1..MaxTimerTasks

\* A task that has not returned and was not cancelled.
AsyncTimer_pending(pc) == pc \in {"start", "sleep", "callback"}

\* Task.done().
AsyncTimer_done(pc) == pc \in {"done", "cancelled"}

\* A deactivate that drops the reference without cancelling the task.
AsyncTimer_cancel_dropped(tasks, ref) == tasks
\* self._timer_task.cancel(): the task gets CancelledError at the await it
\* is in, or before its first statement; a task that returned is unchanged.
AsyncTimer_cancel(tasks, ref) ==
  IF ref = 0 \/ ~AsyncTimer_pending(tasks[ref]) THEN tasks
  ELSE [tasks EXCEPT ![ref] = "cancelled"]

\* The three assignments of deactivate(): <<active, tasks, ref>>.
AsyncTimer_deactivated(tasks, ref) ==
  <<FALSE, AsyncTimer_cancel(tasks, ref), 0>>

\* activate():  whether it creates a task.
AsyncTimer_creates(tasks, ref) == ref = 0 \/ AsyncTimer_done(tasks[ref])

AsyncTimerInit ==
  /\ a_async \in BOOLEAN
  /\ a_interval \in 1..MaxTimerInterval
  /\ a_now = 0
  /\ a_active = FALSE
  /\ a_ref = 0
  /\ a_task = [k \in AsyncTimerTasks |-> "unborn"]
  /\ a_wake = [k \in AsyncTimerTasks |-> 0]
  /\ a_made = 0
  /\ a_armedAt = 0
  /\ a_runs = 0
  /\ a_quiet = FALSE
  /\ a_redone = FALSE

\* The state of the group while another specification runs.
AsyncTimerIdle ==
  /\ a_async = FALSE
  /\ a_interval = 0
  /\ a_now = 0
  /\ a_active = FALSE
  /\ a_ref = 0
  /\ a_task = [k \in AsyncTimerTasks |-> "unborn"]
  /\ a_wake = [k \in AsyncTimerTasks |-> 0]
  /\ a_made = 0
  /\ a_armedAt = 0
  /\ a_runs = 0
  /\ a_quiet = FALSE
  /\ a_redone = FALSE

\* The body of activate() on the timer after deactivate() left it
\* <<active, tasks, ref>>;  by is the method called.
AsyncTimer_activateFrom(state, by) ==
  /\ a_active' = TRUE
  /\ a_quiet' = FALSE
  /\ IF AsyncTimer_creates(state[2], state[3])
       THEN /\ a_made < MaxTimerTasks
            /\ a_made' = a_made + 1
            /\ a_ref' = a_made + 1
            /\ a_task' = [state[2] EXCEPT ![a_made + 1] = "start"]
            /\ a_armedAt' = a_now
            /\ a_runs' = 0
            /\ a_redone' = (by = "reactivate")
       ELSE /\ a_ref' = state[3]
            /\ a_task' = state[2]
            /\ UNCHANGED <<a_made, a_armedAt, a_runs, a_redone>>
  /\ UNCHANGED <<a_async, a_interval, a_now, a_wake>>

\* activate(), awaited by another task.
AsyncTimer_activate ==
  /\ a_interval > 0
  /\ AsyncTimer_activateFrom(<<a_active, a_task, a_ref>>, "activate")
  /\ UNCHANGED aOthers

\* deactivate(), called by another task.
AsyncTimer_deactivate ==
  /\ a_interval > 0
  /\ LET after == AsyncTimer_deactivated(a_task, a_ref) IN
       /\ a_active' = after[1]
       /\ a_task' = after[2]
       /\ a_ref' = after[3]
  /\ a_quiet' = TRUE
  /\ UNCHANGED <<a_async, a_interval, a_now, a_wake, a_made, a_armedAt,
                 a_runs, a_redone>>
  /\ UNCHANGED aOthers

\* reactivate(), awaited by another task: deactivate() if active, then
\* activate().
AsyncTimer_reactivate ==
  /\ a_interval > 0
  /\ AsyncTimer_activateFrom(
       IF a_active THEN AsyncTimer_deactivated(a_task, a_ref)
                   ELSE <<a_active, a_task, a_ref>>, "reactivate")
  /\ UNCHANGED aOthers

\* _run_timer, first step of task k: test self.active, begin the sleep.
AsyncTimer_run_timer_start(k) ==
  /\ a_task[k] = "start"
  /\ IF a_active
       THEN /\ a_task' = [a_task EXCEPT ![k] = "sleep"]
            /\ a_wake' = [a_wake EXCEPT ![k] = a_now + a_interval]
            /\ UNCHANGED a_active
       ELSE /\ a_task' = [a_task EXCEPT ![k] = "done"]
            /\ a_active' = FALSE
            /\ UNCHANGED a_wake
  /\ UNCHANGED <<a_async, a_interval, a_now, a_ref, a_made, a_armedAt,
                 a_runs, a_quiet, a_redone>>
  /\ UNCHANGED aOthers

\* _run_timer, the sleep of task k is over: call the callback.  A
\* synchronous callback returns at once: break, self.active = False.
AsyncTimer_run_timer_expire(k) ==
  /\ a_task[k] = "sleep"
  /\ a_wake[k] <= a_now
  /\ a_runs' = a_runs + 1
  /\ IF a_async
       THEN /\ a_task' = [a_task EXCEPT ![k] = "callback"]
            /\ UNCHANGED a_active
       ELSE /\ a_task' = [a_task EXCEPT ![k] = "done"]
            /\ a_active' = FALSE
  /\ UNCHANGED <<a_async, a_interval, a_now, a_ref, a_wake, a_made,
                 a_armedAt, a_quiet, a_redone>>
  /\ UNCHANGED aOthers

\* _run_timer, the awaited callback of task k returns: break,
\* self.active = False.
AsyncTimer_run_timer_return(k) ==
  /\ a_task[k] = "callback"
  /\ a_task' = [a_task EXCEPT ![k] = "done"]
  /\ a_active' = FALSE
  /\ UNCHANGED <<a_async, a_interval, a_now, a_ref, a_wake, a_made,
                 a_armedAt, a_runs, a_quiet, a_redone>>
  /\ UNCHANGED aOthers

\* Time passes; a task whose sleep is over runs first.
AsyncTimer_tick ==
  /\ a_interval > 0
  /\ a_now < MaxTimerTime
  /\ \A k \in AsyncTimerTasks : a_task[k] = "sleep" => a_wake[k] > a_now
  /\ a_now' = a_now + 1
  /\ UNCHANGED <<a_async, a_interval, a_active, a_ref, a_task, a_wake,
                 a_made, a_armedAt, a_runs, a_quiet, a_redone>>
  /\ UNCHANGED aOthers

\* ----------------------------------------------- StateMechanismButton
\* get_on_longPress_flag: the flag after a read (the read does not clear
\* it; the release branch of _bounced_callback does).
StateMechanism_get_on_longPress_flag_after(flag) == flag

\* OnMultiClickEvent.__init__: max_clicks, its argument left at 0.
StateMechanism_max_clicks(min) == IF 0 >= min THEN 0 ELSE min

\* OnMultiClickEvent.monitor_sync / monitor_async.
StateMechanism_multiClick_verdict(count, min) ==
  /\ count > 0
  /\ min <= count
  /\ (StateMechanism_max_clicks(min) = 0
        \/ count <= StateMechanism_max_clicks(min))

MechInit ==
  /\ m_timeout \in 1..MechMaxTimeout
  /\ m_window \in 1..MechMaxWindow
  /\ m_min \in 1..MechMaxClicks
  /\ m_now = 0
  /\ m_pin = "released"
  /\ m_lastEdge = -1
  /\ m_irqFlag = FALSE
  /\ m_last = "RELEASED"
  /\ m_current = "RELEASED"
  /\ m_pressFlag = FALSE
  /\ m_releaseFlag = FALSE
  /\ m_longFlag = FALSE
  /\ m_pressStart = 0
  /\ m_count = 0
  /\ m_longAt = -1
  /\ m_windows = <<>>
  /\ m_longTrues = 0
  /\ m_attemptEnd = -1
  /\ m_verdict = FALSE
  /\ m_failed = FALSE

\* The state of the group while another specification runs.
MechIdle ==
  /\ m_timeout = 0
  /\ m_window = 0
  /\ m_min = 0
  /\ m_now = 0
  /\ m_pin = "released"
  /\ m_lastEdge = -1
  /\ m_irqFlag = FALSE
  /\ m_last = "RELEASED"
  /\ m_current = "RELEASED"
  /\ m_pressFlag = FALSE
  /\ m_releaseFlag = FALSE
  /\ m_longFlag = FALSE
  /\ m_pressStart = 0
  /\ m_count = 0
  /\ m_longAt = -1
  /\ m_windows = <<>>
  /\ m_longTrues = 0
  /\ m_attemptEnd = -1
  /\ m_verdict = FALSE
  /\ m_failed = FALSE

mParams == <<m_timeout, m_window, m_min>>

\* An edge of the pin (at most one per clock value) and _irq_handler.
StateMechanism_irq_handler ==
  /\ m_timeout > 0
  /\ m_lastEdge < m_now
  /\ m_pin' = IF m_pin = "released" THEN "pressed" ELSE "released"
  /\ m_lastEdge' = m_now
  /\ m_current' = "BOUNCING"
  /\ m_irqFlag' = TRUE
  /\ UNCHANGED <<mParams, m_now, m_last, m_pressFlag, m_releaseFlag,
                 m_longFlag, m_pressStart, m_count, m_longAt, m_windows,
                 m_longTrues, m_attemptEnd, m_verdict, m_failed>>
  /\ UNCHANGED mOthers

\* _bounced_callback, called at the expiry of the debounce timer: the pin
\* is sampled once.  A sample equal to the last stable state changes
\* nothing.  A stable press restarts the long-press timer; a stable
\* release clears the long-press flag, stops the long-press timer, counts
\* a click and starts a one-shot window timer for it.
StateMechanism_bounced_callback ==
  /\ m_timeout > 0
  /\ m_last # (IF m_pin = "released" THEN "RELEASED" ELSE "PRESSED")
  /\ IF m_pin = "pressed"
       THEN /\ m_current' = "PRESSED"
            /\ m_last' = "PRESSED"
            /\ m_pressFlag' = TRUE
            /\ m_pressStart' = m_now
            /\ m_longAt' = m_now + m_timeout
            /\ m_longTrues' = 0
            /\ UNCHANGED <<m_releaseFlag, m_longFlag, m_count, m_windows,
                           m_attemptEnd, m_verdict, m_failed>>
       ELSE /\ m_current' = "RELEASED"
            /\ m_last' = "RELEASED"
            /\ m_releaseFlag' = TRUE
            /\ m_longFlag' = FALSE
            /\ m_pressStart' = 0
            /\ m_longAt' = -1
            /\ m_count' = m_count + 1
            /\ m_windows' = Append(m_windows, m_now + m_window)
            /\ m_attemptEnd' = IF m_count = 0 THEN m_now + m_window
                                              ELSE m_attemptEnd
            /\ m_verdict' = IF m_count = 0 THEN FALSE ELSE m_verdict
            /\ m_failed' = FALSE
            /\ UNCHANGED <<m_pressFlag, m_longTrues>>
  /\ UNCHANGED <<mParams, m_now, m_pin, m_lastEdge, m_irqFlag>>
  /\ UNCHANGED mOthers

\* _longPress_callback, called at the expiry of the long-press timer.
StateMechanism_longPress_callback ==
  /\ m_longAt # -1 /\ m_longAt <= m_now
  /\ m_longAt' = -1
  /\ m_longFlag' = IF m_current = "PRESSED"
                        /\ m_now - m_pressStart >= m_timeout
                      THEN TRUE ELSE m_longFlag
  /\ UNCHANGED <<mParams, m_now, m_pin, m_lastEdge, m_irqFlag, m_last,
                 m_current, m_pressFlag, m_releaseFlag, m_pressStart,
                 m_count, m_windows, m_longTrues, m_attemptEnd, m_verdict,
                 m_failed>>
  /\ UNCHANGED mOthers

\* decrement_multiClick_count, called at the expiry of the oldest window
\* timer.
StateMechanism_decrement_multiClick_count ==
  /\ m_windows # <<>>
  /\ Head(m_windows) <= m_now
  /\ m_windows' = Tail(m_windows)
  /\ m_count' = IF m_count > 0 THEN m_count - 1 ELSE m_count
  /\ IF m_attemptEnd = Head(m_windows)
       THEN /\ m_attemptEnd' = -1
            /\ m_failed' = (~m_verdict /\ ~StateMechanism_multiClick_verdict(
                                             m_count, m_min))
       ELSE UNCHANGED <<m_attemptEnd, m_failed>>
  /\ UNCHANGED <<mParams, m_now, m_pin, m_lastEdge, m_irqFlag, m_last,
                 m_current, m_pressFlag, m_releaseFlag, m_longFlag,
                 m_pressStart, m_longAt, m_longTrues, m_verdict>>
  /\ UNCHANGED mOthers

\* One poll of OnLongPressEvent: get_on_longPress_flag().
StateMechanism_OnLongPressEvent_monitor ==
  /\ m_timeout > 0
  /\ m_longFlag' = StateMechanism_get_on_longPress_flag_after(m_longFlag)
  /\ m_longTrues' = IF m_longFlag /\ m_longTrues < MechMaxTrues
                      THEN m_longTrues + 1 ELSE m_longTrues
  /\ UNCHANGED <<mParams, m_now, m_pin, m_lastEdge, m_irqFlag, m_last,
                 m_current, m_pressFlag, m_releaseFlag, m_pressStart,
                 m_count, m_longAt, m_windows, m_attemptEnd, m_verdict,
                 m_failed>>
  /\ UNCHANGED mOthers

\* One poll of OnMultiClickEvent: get_multiClick_count() and the test.
StateMechanism_OnMultiClickEvent_monitor ==
  /\ m_timeout > 0
  /\ m_verdict' = (m_verdict
                     \/ StateMechanism_multiClick_verdict(m_count, m_min))
  /\ UNCHANGED <<mParams, m_now, m_pin, m_lastEdge, m_irqFlag, m_last,
                 m_current, m_pressFlag, m_releaseFlag, m_longFlag,
                 m_pressStart, m_count, m_longAt, m_windows, m_longTrues,
                 m_attemptEnd, m_failed>>
  /\ UNCHANGED mOthers

\* Time passes; a timer that has expired runs its callback first.
StateMechanism_tick ==
  /\ m_timeout > 0
  /\ m_now < MechMaxTime
  /\ m_longAt # -1 => m_longAt > m_now
  /\ m_windows # <<>> => Head(m_windows) > m_now
  /\ m_now' = m_now + 1
  /\ UNCHANGED <<mParams, m_pin, m_lastEdge, m_irqFlag, m_last, m_current,
                 m_pressFlag, m_releaseFlag, m_longFlag, m_pressStart,
                 m_count, m_longAt, m_windows, m_longTrues, m_attemptEnd,
                 m_verdict, m_failed>>
  /\ UNCHANGED mOthers

\* ------------------------------------------------------- specifications
InitRT ==
  RTInit /\ CFIdle /\ DispIdle /\ BtnIdle /\ IrqIdle /\ ChatterIdle /\ ObsIdle /\ LoopsIdle /\ TimerIdle
  /\ FiltersIdle
  /\ StateIdle
  /\ AsyncTimerIdle
  /\ MechIdle
NextRT ==
  \/ isChangedStably_first
  \/ isChangedStably_wait
  \/ RT_countFiltering_sample
  \/ RT_countFiltering_return
  \/ OnEvent_init
  \/ OnPressReleaseEvent_monitor
  \/ OnLongPressEvent_monitor_begin
  \/ OnLongPressEvent_monitor_toPressed
  \/ OnLongPressEvent_monitor_hold
  \/ OnMultiClickEvent_monitor_begin
  \/ OnMultiClickEvent_monitor_first
  \/ OnMultiClickEvent_monitor_release1
  \/ OnMultiClickEvent_monitor_press
  \/ OnMultiClickEvent_monitor_release
SpecRT == InitRT /\ [][NextRT]_vars
\* A poll in the thread regime followed by the same poll in the task
\* regime.
InitRTBoth == InitRT /\ rt_regime = "sync"
NextRTBoth == NextRT \/ RT_again
SpecRTBoth == InitRTBoth /\ [][NextRTBoth]_vars

InitCF ==
  CFInit /\ RTIdle /\ DispIdle /\ BtnIdle /\ IrqIdle /\ ChatterIdle /\ ObsIdle /\ LoopsIdle /\ TimerIdle
  /\ FiltersIdle
  /\ StateIdle
  /\ AsyncTimerIdle
  /\ MechIdle
NextCF == countFiltering_sample \/ countFiltering_return
SpecCF == InitCF /\ [][NextCF]_vars

InitBtn ==
  BtnInit /\ CFIdle /\ RTIdle /\ DispIdle /\ IrqIdle /\ ChatterIdle /\ ObsIdle /\ LoopsIdle /\ TimerIdle
  /\ FiltersIdle
  /\ StateIdle
  /\ AsyncTimerIdle
  /\ MechIdle
NextBtn ==
  \/ AsyncListener_listen_first
  \/ AsyncListener_listen_second
  \/ AsyncListenerHandler_listen_period
SpecBtn == InitBtn /\ [][NextBtn]_vars

InitDisp ==
  DispInit /\ CFIdle /\ RTIdle /\ BtnIdle /\ IrqIdle /\ ChatterIdle /\ ObsIdle /\ LoopsIdle /\ TimerIdle
  /\ FiltersIdle
  /\ StateIdle
  /\ AsyncTimerIdle
  /\ MechIdle
NextDisp ==
  \/ Pin_change
  \/ BooleanFlag_change
  \/ \E b \in EventHandlerBindings : EventHandler_start(b)
  \/ ListenerHandler_activate
  \/ \E b \in EventHandlerBindings : EventHandler_stop(b)
  \/ ListenerHandler_deactivate
  \/ Button_stopEventHandlers
  \/ \E b \in EventHandlerBindings : EventHandler_monitor_test(b)
  \/ \E b \in EventHandlerBindings : EventHandler_isChangedStably_first(b)
  \/ \E b \in EventHandlerBindings : EventHandler_isChangedStably_wait(b)
  \/ \E b \in EventHandlerBindings : EventHandler_isChangedStably_sleep(b)
  \/ \E b \in EventHandlerBindings : EventHandler_countFiltering_sample(b)
  \/ \E b \in EventHandlerBindings : EventHandler_handle(b)
  \/ ListenerHandler_listen_poll
  \/ ListenerHandler_listen_sleep
SpecDisp == InitDisp /\ [][NextDisp]_vars
\* The same dispatcher, the handler calls of one binding being followed.
InitDispWatch ==
  DispWatchInit /\ CFIdle /\ RTIdle /\ BtnIdle /\ IrqIdle /\ ChatterIdle /\ ObsIdle /\ LoopsIdle /\ TimerIdle
  /\ FiltersIdle
  /\ StateIdle
  /\ AsyncTimerIdle
  /\ MechIdle
SpecDispWatch == InitDispWatch /\ [][NextDisp]_vars
InitIrq ==
  IrqInit /\ CFIdle /\ RTIdle /\ DispIdle /\ BtnIdle /\ ChatterIdle /\ ObsIdle /\ LoopsIdle /\ TimerIdle
  /\ FiltersIdle
  /\ StateIdle
  /\ AsyncTimerIdle
  /\ MechIdle
NextIrq ==
  \/ InterruptDriven_activate
  \/ InterruptDriven_deactivate
  \/ InterruptDriven_irq_handler
  \/ IrqListenerHandler_listen
  \/ InterruptDriven_irq_agentHandler_restart
  \/ InterruptDriven_irq_agentHandler_clear
  \/ InterruptDriven_debounce_handler
  \/ InterruptDriven_debounce_handler_clear
  \/ \E k \in IrqDetectors : OnPressedListener_listen(k)
  \/ Irq_tick
SpecIrq == InitIrq /\ [][NextIrq]_vars
\* The same, for the button with the long interval.
InitIrqSlow ==
  /\ IrqSlowInit /\ CFIdle /\ RTIdle /\ DispIdle /\ BtnIdle /\ ChatterIdle
  /\ ObsIdle /\ LoopsIdle /\ TimerIdle
  /\ FiltersIdle
  /\ StateIdle
  /\ AsyncTimerIdle
  /\ MechIdle
SpecIrqSlow == InitIrqSlow /\ [][NextIrq]_vars

InitChatter ==
  /\ ChatterInit /\ CFIdle /\ RTIdle /\ DispIdle /\ BtnIdle /\ IrqIdle /\ ObsIdle
  /\ LoopsIdle /\ TimerIdle
  /\ FiltersIdle
  /\ StateIdle
  /\ AsyncTimerIdle
  /\ MechIdle
NextChatter ==
  \/ Pin_genuineChange
  \/ Pin_settle
  \/ Repeated_isChangedStably_first
  \/ Repeated_isChangedStably_wait
  \/ Repeated_countFiltering_sample
SpecChatter == InitChatter /\ [][NextChatter]_vars

InitObs ==
  /\ ObsInit /\ CFIdle /\ RTIdle /\ DispIdle /\ BtnIdle /\ IrqIdle /\ ChatterIdle
  /\ LoopsIdle /\ TimerIdle
  /\ FiltersIdle
  /\ StateIdle
  /\ AsyncTimerIdle
  /\ MechIdle
NextObs ==
  \/ Obs_pinChange
  \/ Obs_stateChange
  \/ RealTimeButton_isPressed
  \/ RealTimeButton_isReleased
  \/ InterruptDriven_isPressed
  \/ InterruptDriven_isReleased
  \/ InterruptDriven_getState
  \/ CountFiltering_getState_begin
  \/ CountFiltering_getState_read
SpecObs == InitObs /\ [][NextObs]_vars

InitLoops ==
  /\ LoopsInit /\ CFIdle /\ RTIdle /\ DispIdle /\ BtnIdle /\ IrqIdle
  /\ ChatterIdle /\ ObsIdle /\ TimerIdle
  /\ FiltersIdle
  /\ StateIdle
  /\ AsyncTimerIdle
  /\ MechIdle
NextLoops ==
  \/ Loops_eventChange
  \/ EventHandler_start_any
  \/ ListenerHandler_activate_any
  \/ EventHandler_stop_any
  \/ ListenerHandler_deactivate_any
  \/ \E b \in LoopBindings : Loops_test(b)
  \/ EventHandler_monitor_poll
  \/ EventHandler_handle_return
  \/ ListenerHandler_listen_poll_any
  \/ ListenerHandler_listen_sleep_any
  \/ Handler_handle_return
SpecLoops == InitLoops /\ [][NextLoops]_vars

InitTimer ==
  /\ TimerInit /\ CFIdle /\ RTIdle /\ DispIdle /\ BtnIdle /\ IrqIdle
  /\ ChatterIdle /\ ObsIdle /\ LoopsIdle
  /\ FiltersIdle
  /\ StateIdle
  /\ AsyncTimerIdle
  /\ MechIdle
NextTimer ==
  \/ Timer_InterruptDriven_activate
  \/ Timer_InterruptDriven_deactivate
  \/ AsyncTimer_run_timer
  \/ Timer_InterruptDriven_irq_agentHandler
  \/ Timer_InterruptDriven_debounce_handler
  \/ Timer_InterruptDriven_debounce_handler_clear
SpecTimer == InitTimer /\ [][NextTimer]_vars

InitFilters ==
  /\ FiltersInit /\ CFIdle /\ RTIdle /\ DispIdle /\ BtnIdle /\ IrqIdle
  /\ ChatterIdle /\ ObsIdle /\ LoopsIdle /\ TimerIdle
  /\ StateIdle
  /\ AsyncTimerIdle
  /\ MechIdle
NextFilters ==
  \/ DigitalFilters_isChanged_first
  \/ DigitalFilters_isChanged_for
  \/ DigitalFilters_isChangedStably_first
  \/ DigitalFilters_isChangedStably_while
  \/ DigitalFilters_countFiltering_sample
  \/ DigitalFilters_countFiltering_return
SpecFilters == InitFilters /\ [][NextFilters]_vars

InitState ==
  /\ StateInit /\ CFIdle /\ RTIdle /\ DispIdle /\ BtnIdle /\ IrqIdle
  /\ ChatterIdle /\ ObsIdle /\ LoopsIdle /\ TimerIdle /\ FiltersIdle
  /\ AsyncTimerIdle
  /\ MechIdle
NextState ==
  \/ State_pinChange
  \/ StateDebounceButton_getState
  \/ \E fn \in {"isToPressed", "isToReleased"} : StateDebounceButton_isTo_begin(fn)
  \/ StateDebounceButton_isTo_sample
SpecState == InitState /\ [][NextState]_vars

InitAsyncTimer ==
  /\ AsyncTimerInit /\ CFIdle /\ RTIdle /\ DispIdle /\ BtnIdle /\ IrqIdle
  /\ ChatterIdle /\ ObsIdle /\ LoopsIdle /\ TimerIdle /\ FiltersIdle
  /\ StateIdle
  /\ MechIdle
NextAsyncTimer ==
  \/ AsyncTimer_activate
  \/ AsyncTimer_deactivate
  \/ AsyncTimer_reactivate
  \/ \E k \in AsyncTimerTasks : AsyncTimer_run_timer_start(k)
  \/ \E k \in AsyncTimerTasks : AsyncTimer_run_timer_expire(k)
  \/ \E k \in AsyncTimerTasks : AsyncTimer_run_timer_return(k)
  \/ AsyncTimer_tick
SpecAsyncTimer == InitAsyncTimer /\ [][NextAsyncTimer]_vars

InitMech ==
  /\ MechInit /\ CFIdle /\ RTIdle /\ DispIdle /\ BtnIdle /\ IrqIdle
  /\ ChatterIdle /\ ObsIdle /\ LoopsIdle /\ TimerIdle /\ FiltersIdle
  /\ StateIdle /\ AsyncTimerIdle
NextMech ==
  \/ StateMechanism_irq_handler
  \/ StateMechanism_bounced_callback
  \/ StateMechanism_longPress_callback
  \/ StateMechanism_decrement_multiClick_count
  \/ StateMechanism_OnLongPressEvent_monitor
  \/ StateMechanism_OnMultiClickEvent_monitor
  \/ StateMechanism_tick
SpecMech == InitMech /\ [][NextMech]_vars

\* Threads are scheduled preemptively and tasks yield at every sleep:
\* every loop that can take a step eventually takes one.
SpecDispFair ==
  /\ InitDisp /\ [][NextDisp]_vars
  /\ \A b \in DispBindings : WF_vars(Disp_loopStep(b))

\* ------------------------------------------------------------- claim C1
\* C1: for one clean press and release, each level held for longer than
\* a whole poll, the listener of the press (of the release) has returned
\* True exactly once when the button has been released and polled again.
C1_ExactlyOnce ==
  ( /\ b_kind \in {"press", "release"}
    /\ b_edges[1] > b_interval + b_period + 2
    /\ b_edges[2] - b_edges[1] > b_interval + b_period + 2
    /\ b_pc = "test"
    /\ b_now > b_edges[2] + b_interval + b_period + 2 )
  => b_trues = 1

C3_StoppedLoopExits ==
  \A b \in DispBindings :
    [](( ~d_enabled[b] /\ d_loop[b] # "none" )
         => <>(d_loop[b] \in {"exited", "dead"}))

C5_HandlerFailureKeepsLoop ==
  \A b \in DispBindings :
    (d_raised[b] /\ d_enabled[b]) => d_loop[b] # "dead"

\* ------------------------------------------------------------ claim C11
\* C11: the handler of a binding is called once per event; in
\* particular no event of the followed binding gets a second handler
\* call.
C11_NoEventHandledTwice == d_seen # "twice"

\* ------------------------------------------------------------ claim C12
\* C12: a stop() of one binding alone disables that binding and leaves
\* everything else as it was: the enabled flag of every other binding,
\* the position and the counter of every poll loop, the pin, the flag and
\* the handler history.
C12_StopTouchesOneBinding ==
  [][ \A b \in EventHandlerBindings :
        ( /\ d_stops'[b] = d_stops[b] + 1
          /\ \A c \in DispBindings \ {b} : d_stops'[c] = d_stops[c] )
          => /\ ~d_enabled'[b]
             /\ \A c \in DispBindings \ {b} : d_enabled'[c] = d_enabled[c]
             /\ d_loop' = d_loop /\ d_cnt' = d_cnt
             /\ d_pin' = d_pin /\ d_flag' = d_flag
             /\ d_raised' = d_raised /\ d_seen' = d_seen ]_vars

\* One binding has been stopped and its loop has exited, while the other
\* binding of the button, still enabled, has detected a press and is
\* about to call its handler.
C12_Witness ==
  \E b \in EventHandlerBindings : \E c \in EventHandlerBindings \ {b} :
    /\ d_stops[b] >= 1 /\ ~d_enabled[b] /\ d_loop[b] = "exited"
    /\ d_stops[c] = 0 /\ d_enabled[c] /\ d_loop[c] = "handle"

\* ------------------------------------------------------------ claim C13
\* C13: the debounce callback of the interrupt-driven button runs only
\* after a whole debounce interval without edge interrupt.
C13_CallbackAfterSilence == i_quiet # "noisy"

\* ------------------------------------------------------------ claim C14
\* The scenario: debounce 50 ms, a rising edge, a falling edge 10 ms later,
\* a rising edge 5 ms after that, then silence; the button stays active.
\* Irq_sinceFirstEdge is the time since the first edge.
Irq_scenario ==
  /\ i_interval = 50 /\ i_phase = "active"
  /\ Len(i_edges) = 3
  /\ i_edges[2] = i_edges[1] + 10 /\ i_edges[3] = i_edges[1] + 15
  /\ i_next > 1
Irq_sinceFirstEdge == i_now - i_edges[1]

\* C14: in the scenario the state is BOUNCING before 65 ms and PRESSED
\* after; the to-pressed flag is clear before 65 ms and after 165 ms, and
\* between the two it is set until a listener has taken it.
C14_ScenarioTimeline ==
  Irq_scenario =>
    /\ (Irq_sinceFirstEdge > 0 /\ Irq_sinceFirstEdge < 65)
          => (i_current = "BOUNCING" /\ ~i_toPressed)
    /\ Irq_sinceFirstEdge > 65 => i_current = "PRESSED"
    /\ (Irq_sinceFirstEdge > 65 /\ Irq_sinceFirstEdge < 165
          /\ \A k \in IrqDetectors : i_trues[k] = 0) => i_toPressed
    /\ Irq_sinceFirstEdge > 165 => ~i_toPressed

\* ------------------------------------------------------------ claim C15
\* C15: the waveform holds one physical press, all later edges being
\* noise while the button is held, so no press listener reports the
\* to-pressed transition twice.
C15_OneReportPerPress == \A k \in IrqDetectors : i_trues[k] <= 1

\* ------------------------------------------------------------ claim C16
\* Nothing is left of the press: every edge has been taken, the interrupt
\* flag is clear, no agent and no timer is pending, the to-pressed flag is
\* clear.
Irq_settled ==
  /\ i_next > Len(i_edges) /\ ~i_irqFlag /\ i_agent = "idle"
  /\ i_timer = "none" /\ ~i_toPressed

\* C16: each of the two press listeners reports the press: once the press
\* has been reported by one of them and nothing is left of it in the
\* active button, it has been reported by the other too.
C16_EveryDetectorReports ==
  (i_phase = "active" /\ Irq_settled /\ \E k \in IrqDetectors : i_trues[k] >= 1)
    => \A k \in IrqDetectors : i_trues[k] >= 1

\* ------------------------------------------------------------ claim C17
\* C17: on the same waveform, with no noisy read in either poll,
\* monitor_async returns the verdict monitor_sync returned.
C17_SameVerdict ==
  (rt_syncVerdict # "none" /\ rt_pc = "done" /\ rt_glitch = 0)
    => rt_result = rt_syncVerdict

\* ------------------------------------------------------------ claim C18
\* C18: between two genuine changes of the pin to the end level,
\* isChangedStably returns True at most once, whatever the bounce samples
\* (fewer than the threshold after each change) read.
C18_NoChatter == nc_trues <= 1

\* After a change to the end level with bounce, a call has returned True
\* and later calls have returned False while the pin stayed at that level.
C18_Witness ==
  /\ nc_trues = 1 /\ nc_falses >= 2 /\ nc_bounced
  /\ nc_level = NC_end /\ nc_threshold >= 2

\* ------------------------------------------------------------ claim C19
\* C19: on one pin sample, or one cached state, isPressed and isReleased
\* are not both true, and getState has returned one of the three states.
C19_NeverPressedAndReleased ==
  /\ ~(o_isPressed = "true" /\ o_isReleased = "true")
  /\ o_state \in ButtonStates \cup {"none"}

\* ------------------------------------------------------------ claim C20
\* C20: a deactivated interrupt-driven button has no handler armed on its
\* pin.
C20_DeactivatedIsDisarmed == i_phase = "deactivated" => ~i_armed

\* The hold of the (only) press of a long-press waveform; a button that is
\* never released has no hold length.
RT_released_ever == Len(rt_edges) >= 2
RT_hold == rt_edges[2] - rt_edges[1]
RT_longDone == rt_kind = "long" /\ rt_pc = "done" /\ rt_result # "raised"

\* ------------------------------------------------------------- claim C6
\* C6 (as stated): a press held without interruption for timeout_ms or
\* longer, measured from the physical press, makes the long-press detector
\* report true, and a press held for exactly timeout_ms - 1 makes it
\* report false.
C6_HoldFromPhysicalPress ==
  (RT_longDone /\ rt_timeout >= 1 /\ rt_glitch = 0) =>
     /\ (~RT_released_ever \/ RT_hold >= rt_timeout) => rt_result = "true"
     /\ (RT_released_ever /\ RT_hold = rt_timeout - 1) => rt_result = "false"

\* C6 (amended): the deadline is timeout_ms after the to-pressed transition
\* has been confirmed stable, not after the physical press.  A clean press
\* that is confirmed and held until (threshold - 1) * interval_ms after
\* that deadline reports true; and the detector reports true only for a
\* hold longer than timeout_ms + (threshold - 2) * interval_ms, so that
\* with threshold >= 2 a hold of exactly timeout_ms reports false.
C6_HoldFromConfirmedPress ==
  (RT_longDone /\ rt_glitch = 0) =>
     /\ ( /\ rt_detectAt > 0
          /\ \/ ~RT_released_ever
             \/ rt_edges[2] >= rt_endTime + (rt_threshold - 1) * rt_interval )
        => rt_result = "true"
     /\ rt_result = "true" =>
          \/ ~RT_released_ever
          \/ RT_hold > rt_timeout + (rt_threshold - 2) * rt_interval

\* A press released after the deadline that is reported as a long press.
C6_Witness ==
  /\ RT_longDone /\ rt_glitch = 0 /\ RT_released_ever
  /\ rt_result = "true"
  /\ rt_edges[2] >= rt_endTime + (rt_threshold - 1) * rt_interval

\* ------------------------------------------------------------- claim C7
\* C7 (as stated): the long press reports true only if the pin was never
\* released between the to-pressed transition and the deadline, however
\* briefly.
C7_NoReleaseAtAll ==
  (RT_longDone /\ rt_result = "true") => rt_maxRelRun = 0

\* C7 (amended): the long press reports true only if no stability check
\* of the wait loop failed, that is only if the pin never read released
\* threshold times in a row; a shorter release does not end the attempt.
C7_NoStableRelease ==
  (RT_longDone /\ rt_result = "true") => rt_maxRelRun < rt_threshold

\* A long press reported although the pin read released during the hold.
C7_Witness ==
  RT_longDone /\ rt_result = "true" /\ rt_maxRelRun >= 1

\* ------------------------------------------------------------- claim C8
\* C8 (as stated): when the release of the button and the passing of the
\* deadline both occur within one tick of the wait loop, the long press
\* reports false.
C8_ReleaseWinsInTick ==
  ( /\ RT_longDone /\ rt_glitch = 0 /\ rt_detectAt > 0 /\ RT_released_ever
    /\ rt_tickStart < rt_edges[2] /\ rt_edges[2] <= rt_now
    /\ rt_tickStart < rt_endTime /\ rt_endTime <= rt_now )
  => rt_result = "false"

\* C8 (amended): when the stability check of a tick observes the release
\* (its last threshold reads are released), the long press reports false,
\* also when the deadline has passed during that check; the long press
\* reports true only when the last read of the final tick was pressed.
C8_ObservedReleaseWins ==
  RT_longDone =>
    /\ (rt_detectAt > 0 /\ rt_relRun >= rt_threshold) => rt_result = "false"
    /\ rt_result = "true" => rt_relRun = 0

\* The release is observed by the stability check during which the deadline passes.
C8_Witness ==
  /\ RT_longDone /\ rt_detectAt > 0 /\ rt_relRun >= rt_threshold
  /\ rt_now >= rt_endTime /\ rt_tickStart < rt_endTime
  /\ rt_result = "false"

\* ------------------------------------------------------------- claim C9
\* C9: the multi-click detector returns true only if the release of the
\* last click happened no later than the deadline (first confirmed press +
\* window); the deadline of the model is never earlier than the one of
\* the claim, which counts the window from the physical press.
C9_LastReleaseBeforeDeadline ==
  (rt_kind = "multi" /\ rt_pc = "done" /\ rt_result = "true")
    => rt_edges[2 * rt_times] <= rt_endTime

\* ------------------------------------------------------------ claim C10
\* C10: a long-press or multi-click detector given a non-positive timeout
\* or click count is constructed without an exception, and every poll of
\* it returns false.
C10_InvalidNeverThrows ==
  OnEvent_initInvalid(rt_kind, rt_times, rt_timeout)
    => rt_result \in {"none", "false"}

C22_LoopNotStalled ==
  (h_loop["listener"]["sleep"] > 0 /\ h_handler > 0)
    => ENABLED ListenerHandler_listen_sleep_any

\* A second handler invocation has been spawned while the first is in
\* flight: the poll that found the second event ran beside the handler of
\* the first.
C22_Witness ==
  /\ h_handler = 2
  /\ h_loop["listener"]["sleep"] = 1 /\ Loops_running("listener") = 1

\* ------------------------------------------------------------ claim C24
\* C24: a binding never has more than one poll loop running.
C24_AtMostOneLoop ==
  \A b \in LoopBindings : Loops_running(b) <= 1

\* ------------------------------------------------------------ claim C23
\* C23: a query of a reader changes neither the state of the
\* interrupt-driven button, nor its cached last state, nor a transition
\* flag: the poll of a press listener, which is isToPressed, leaves them
\* all as they are.
C23_ReadersOnlyRead ==
  [][(\E k \in IrqDetectors : OnPressedListener_listen(k))
       => UNCHANGED <<i_last, i_current, i_toReleased, i_toPressed>>]_vars

\* ------------------------------------------------------------ claim C25
\* C25: the edge interrupt of an active interrupt-driven button sets the
\* interrupt flag and marks the button BOUNCING, so that the state is
\* BOUNCING from the edge itself on.
C25_EdgeMarksBouncing ==
  [][(InterruptDriven_irq_handler /\ i_armed /\ i_phase = "active")
       => (i_irqFlag' /\ i_current' = "BOUNCING")]_vars

\* ------------------------------------------------------------ claim C26
\* C26: before the first edge interrupt and the first expiry of the
\* debounce timer the state of the interrupt-driven button is RELEASED.
C26_InitiallyReleased ==
  (i_lastEdge = -1 /\ i_quiet = "none") => i_current = "RELEASED"

\* ------------------------------------------------------------ claim C28
\* C28: a raised transition flag that no detector reads is clear again
\* at the latest twice the interval after its raise, also when the
\* debounce timer is restarted in between, as long as the button is
\* active.
C28_FlagClearsItself ==
  i_phase = "active" =>
    /\ i_toReleased => i_now <= i_clearBy["toReleased"]
    /\ i_toPressed => i_now <= i_clearBy["toPressed"]

\* ------------------------------------------------------------ claim C27
\* C27: the debounce callback raises the flag of a transition only if the
\* state it commits differs from the state it committed before: no
\* to-pressed flag after PRESSED, no to-released flag after RELEASED.
C27_FlagOnlyOnChange ==
  [][(InterruptDriven_debounce_handler /\ i_timer' = "hold")
       => i_stable' # i_stable]_vars

\* ------------------------------------------------------------ claim C29
\* C29: after an expiry of the debounce timer whose pin sample matched
\* neither signal the state is BOUNCING, the warning has been logged and
\* the timer is armed again, so that a later expiry samples the pin.
C29_AmbiguousSampleRetried ==
  (t_phase = "active" /\ t_sample = "neither")
    => (t_current = "BOUNCING" /\ t_warned /\ AsyncTimer_armed)

\* ------------------------------------------------------------ claim C30
\* C30: in countFiltering one read that differs from the target after
\* two or more consecutive reads equal to it takes one from the counter
\* and does not restart it.
C30_OppositeReadDecrements ==
  [][(cf_reads' = cf_reads + 1 /\ cf_cnt >= 2 /\ cf_prev' = "miss")
       => cf_cnt' = cf_cnt - 1]_vars

\* ------------------------------------------------------------ claim C39
\* The last n reads of the call exist and all satisfy / all fail
\* pin.value() == target_signal.
CF_lastAll(n, match) ==
  /\ Len(cf_seq) >= n
  /\ \A i \in (Len(cf_seq) - n + 1)..Len(cf_seq) :
       (cf_seq[i] = cf_target) = match

\* The length of the run of equal verdicts that ends the reads.
CF_runLength ==
  IF cf_seq = <<>> THEN 0
  ELSE CHOOSE n \in 1..Len(cf_seq) :
         /\ CF_lastAll(n, cf_seq[Len(cf_seq)] = cf_target)
         /\ ~CF_lastAll(n + 1, cf_seq[Len(cf_seq)] = cf_target)

\* C39: countFiltering decides by run length.  For threshold t >= 1 the
\* counter is the signed length of the run of equal verdicts that ends the
\* reads, so -t <= cnt <= t; the call reads on while |cnt| < t and returns
\* at |cnt| = t; it returns true iff the last t reads were all equal to the
\* target and false iff the last t reads were all different from it.
C39_DecidesByRunLength ==
  /\ -cf_threshold <= cf_cnt /\ cf_cnt <= cf_threshold
  /\ cf_pc \in {"loop", "done"} =>
       /\ cf_cnt = IF cf_prev = "miss" THEN -CF_runLength ELSE CF_runLength
       /\ (cf_pc = "done") => cf_cnt \in {cf_threshold, -cf_threshold}
       /\ (cf_pc = "loop" /\ cf_cnt \in {cf_threshold, -cf_threshold})
            => (ENABLED countFiltering_return /\ ~ENABLED countFiltering_sample)
  /\ cf_pc = "done" =>
       /\ cf_result <=> CF_lastAll(cf_threshold, TRUE)
       /\ ~cf_result <=> CF_lastAll(cf_threshold, FALSE)

\* A call that returned true after a bounce: more reads than the threshold,
\* one of them different from the target.
C39_Witness ==
  /\ cf_pc = "done" /\ cf_result
  /\ cf_threshold >= 2
  /\ Len(cf_seq) > cf_threshold
  /\ \E i \in 1..Len(cf_seq) : cf_seq[i] # cf_target

\* ------------------------------------------------------------ claim C31
\* No read of the call from the n-th on, the last one excepted, equals v.
Filters_noneBeforeLast(n, v) ==
  \A i \in n..(Len(f_seq) - 1) : f_seq[i] # v

\* C31: isChanged returns false without sleeping when the first pin read is
\* not start; otherwise it reads the pin at most threshold further times,
\* returns true at the first of these reads that equals end, and returns
\* false when none of the threshold reads equals end.
C31_IsChangedPollsBudget ==
  (f_fn = "isChanged" /\ f_seq # <<>>) =>
    IF f_seq[1] # f_start
      THEN f_pc = "done" /\ ~f_result /\ Len(f_seq) = 1 /\ f_sleeps = 0
      ELSE /\ Len(f_seq) <= 1 + f_threshold
           /\ Filters_noneBeforeLast(2, f_end)
           /\ f_pc = "done" =>
                IF f_result
                  THEN Len(f_seq) >= 2 /\ f_seq[Len(f_seq)] = f_end
                  ELSE /\ Len(f_seq) = 1 + f_threshold
                       /\ \A i \in 2..Len(f_seq) : f_seq[i] # f_end
           /\ (f_pc # "done" /\ Len(f_seq) >= 2) => f_seq[Len(f_seq)] # f_end

\* A call that saw the pin at start, polled more than once and returned
\* true before its budget was spent.
C31_Witness ==
  /\ f_fn = "isChanged" /\ f_pc = "done" /\ f_result
  /\ f_start # f_end
  /\ Len(f_seq) = 3 /\ f_threshold = 3

\* ------------------------------------------------------------ claim C32
\* The countFiltering verdict of the call: the last threshold reads, all
\* taken after the pin left start, all satisfy / all fail  == end_signal.
Filters_stableAt(match) ==
  /\ Len(f_seq) - f_left >= f_threshold
  /\ \A i \in (Len(f_seq) - f_threshold + 1)..Len(f_seq) :
       (f_seq[i] = f_end) = match

\* C32: isChangedStably returns true exactly when its first pin read equals
\* start, the pin later leaves start, and the countFiltering verdict taken
\* after that is stable at end; when the first read is not start it returns
\* false after one interval without calling countFiltering.
C32_IsChangedStablyVerdict ==
  (f_fn = "isChangedStably" /\ f_pc = "done") =>
    /\ f_seq[1] # f_start =>
         ~f_result /\ Len(f_seq) = 1 /\ f_sleeps = 1 /\ f_left = 0
    /\ f_seq[1] = f_start =>
         /\ f_left >= 2
         /\ f_seq[f_left] # f_start
         /\ \A i \in 1..(f_left - 1) : f_seq[i] = f_start
         /\ f_sleeps = Len(f_seq) - 2
    /\ f_result <=>
         (f_seq[1] = f_start /\ f_left >= 2 /\ Filters_stableAt(TRUE))
    /\ (~f_result /\ f_seq[1] = f_start) => Filters_stableAt(FALSE)

\* A call that waited at start, saw the pin leave and bounce, and returned
\* true.
C32_Witness ==
  /\ f_fn = "isChangedStably" /\ f_pc = "done" /\ f_result
  /\ f_start # f_end /\ f_threshold = 2
  /\ f_left = 3
  /\ \E i \in (f_left + 1)..Len(f_seq) : f_seq[i] = f_start

\* ------------------------------------------------------------ claim C33
\* A call of isToPressed / isToReleased returns True in this step.
State_returnsTrue == StateDebounceButton_isTo_sample /\ s_result' = "true"

\* C33 (as stated): isToPressed returns true only when the cached last
\* state before the call was RELEASED and the pin sample taken one interval
\* later is the pressed level (symmetrically isToReleased), and after
\* returning true the cached state equals the newly sampled state.
C33_TrueOnlyFromCachedState ==
  [][State_returnsTrue =>
       /\ s_entry = StateDebounceButton_from(s_fn)
       /\ s_sample' = StateDebounceButton_to(s_fn)
       /\ s_last' = s_sample']_vars

\* C33 (amended): isToPressed returns true only when the cached last state
\* before the call was RELEASED, or was BOUNCING and the sample the call
\* took at its entry was the released level, and the pin sample taken one
\* interval later is the pressed level (symmetrically isToReleased); after
\* returning true the cached state equals the newly sampled state.
C33_TrueOnlyFromCachedOrEntryState ==
  [][State_returnsTrue =>
       /\ \/ s_entry = StateDebounceButton_from(s_fn)
          \/ /\ s_entry = "BOUNCING"
             /\ s_entrySample = StateDebounceButton_from(s_fn)
       /\ s_sample' = StateDebounceButton_to(s_fn)
       /\ s_last' = s_sample']_vars

\* The first call on a new button returned True: the cache was BOUNCING when
\* it began.  A later call returned True from a cached RELEASED.
C33_Witness ==
  /\ s_mode = "any" /\ s_pc = "idle" /\ s_result = "true"
  /\ s_fn = "isToPressed" /\ s_last = "PRESSED"
  /\ \/ s_entry = "BOUNCING" /\ s_entrySample = "RELEASED"
     \/ s_entry = "RELEASED" /\ s_reported = 2

\* ------------------------------------------------------------ claim C36
\* C36: a StateDebounceButton polled only through isToPressed, over clean
\* press / release cycles each held for several polls: every press is
\* reported by a true result of isToPressed (at the latest by the polls
\* that return while the press is held).
C36_EveryPressReported ==
  (s_mode = "pressOnly" /\ s_pin = "pressed" /\ s_polls >= HoldPolls)
    => s_reported >= s_presses

\* ------------------------------------------------------------ claim C38
\* The number of timer tasks that have neither returned nor been cancelled.
AsyncTimer_pendingTasks ==
  Cardinality({k \in AsyncTimerTasks : AsyncTimer_pending(a_task[k])})

C34_LongPressReportedOnce ==
  /\ m_longTrues <= 1
  /\ m_longTrues = 1 => ~m_longFlag

Irq_quietSince ==
  /\ i_next > Len(i_edges)
  /\ i_now > i_edges[Len(i_edges)] + ListenerHandler_period_ms + i_interval

====
